---- MODULE Spec2Model ----
(***************************************************************************)
(* Model of the fitting core of storm-analysis:                            *)
(*   - sa_library/dao_fit.c : the single-channel Gaussian fitter           *)
(*   - multi_plane/mp_fit.c : the multi-plane coordinator                  *)
(*                                                                         *)
(* Doubles are held exactly, as integers in units of 1/Unit (a parameter   *)
(* value v is stored as v*Unit).  The image arrays f_data, bg_data and     *)
(* bg_counts are held as finite maps from the flat pixel index to the      *)
(* value; an index that is not in the map holds 0.                         *)
(***************************************************************************)
EXTENDS Integers, Sequences, FiniteSets, TLC

VARIABLES
  sys,      \* which library instance this behaviour drives: "dao", "mp" or "rt"
  fit,      \* dao: fit_data->fit, the peaks (a sequence, index 1 is fit[0])
  store,    \* dao: [f_data, bg_data, bg_counts]
  diag,     \* dao: [n_dposv, n_margin, n_neg_fi, n_neg_height, n_neg_width]
  mode,     \* dao: which update function the driver of this instance calls;
            \* mp: which of mpIterateLM() and mpIterateOriginal() it calls
  pc,       \* dao: position inside iterate*(): "idle", "update" or "err"
  idx,      \* dao: loop index i of the running loop of iterate*()
  iters,    \* dao: number of iterate*() calls made so far
  before,   \* rt: the arrays as they were before addPeak()
  mp,       \* mp: the mpFit structure [fit_data, heights, independent_heights]
  pass      \* mp: retries made by the while(1) loop of mpIterateLM()


----------------------------------------------------------------------------
(* Bounds of the model *)

\* Fixed-point resolution: 1 pixel (or 1 count) is Unit steps.
Unit == 10
\* Most iterate*() calls in one behaviour.
MaxIter == 2
\* Parameters are kept within -MaxParam*Unit .. MaxParam*Unit.
MaxParam == 20
\* Most retries of one emitter in the while(1) loop of mpIterateLM().
MaxRetry == 1
\* lambda is a double: multiplied by LAMBDAUP often enough it is +inf and
\* stays +inf.  The model saturates after MaxLambdaUp factors.
MaxLambdaUp == 2
\* ZCENTER of the weight-index runs is drawn from -MaxZ*Unit .. MaxZ*Unit.
MaxZ == 3

----------------------------------------------------------------------------
(* Program constants *)

MARGIN == 10
\* HYSTERESIS is 0.6, held in tenths.
HYSTERESIS == 6

NFITTING == 7
HEIGHT == 0
XCENTER == 1
XWIDTH == 2
YCENTER == 3
YWIDTH == 4
BACKGROUND == 5
ZCENTER == 6

RUNNING == 0
CONVERGED == 1
ERROR == 2

\* The image size given to initialize().
image_size_x == 24
image_size_y == 23

----------------------------------------------------------------------------
(* Arithmetic helpers *)

Abs(a) == IF a < 0 THEN -a ELSE a

\* (int)v for the double v = a/Unit: truncation towards zero.
ToInt(a) == IF a >= 0 THEN a \div Unit ELSE -((-a) \div Unit)

\* a/b for doubles held in fixed point, rounded towards zero (b # 0).
QuoT(a, b) ==
  LET q == Abs(a) \div Abs(b)
  IN  IF (a < 0) = (b < 0) THEN q ELSE -q

ParamOK(v) == v >= -(MaxParam * Unit) /\ v <= MaxParam * Unit

----------------------------------------------------------------------------
(* The image arrays *)

Pixels == 0 .. (image_size_x * image_size_y - 1)

Get(arr, m) == IF m \in DOMAIN arr THEN arr[m] ELSE 0

\* The canonical map of an array: the indices holding a non-zero value.
Norm(arr) ==
  LET nz == {m \in DOMAIN arr : arr[m] # 0}
  IN  [m \in nz |-> arr[m]]

\* The element of a one-element set.  Only({e(x) : x \in {v}}) is e(v) with
\* v worked out once.
Only(S) == CHOOSE x \in S : TRUE

Zeros == [m \in {} |-> 0]

EmptyStore == [f_data |-> Zeros, bg_data |-> Zeros, bg_counts |-> Zeros]

\* scmos_term[m], the calibration copied by initialize().
scmos_term(m) == (m % 3) * Unit

\* exp(-u) for u = t*t*width, with t and width in fixed point (u carries
\* Unit^3): a positive, decreasing surrogate of the exponential that is 8
\* at u = 0 and 0 far out.
ExpNeg(u) == IF u < 0 THEN 8 ELSE 8 \div (1 + (2 * u) \div (Unit * Unit * Unit))

----------------------------------------------------------------------------
(* sa_library/dao_fit.c *)

ModelIdx == 0 .. (2 * MARGIN)

\* The pixels of the loops "for j in -wy..wy, for k in -wx..wx":
\* m = j * image_size_x + k + offset.
BoxIndex(peak) ==
  {j * image_size_x + k + peak.offset :
     j \in (-peak.wy) .. peak.wy, k \in (-peak.wx) .. peak.wx}

\* k and j of the flat index m of a peak's box.
BoxK(peak, m) == ((m - peak.offset + peak.wx) % image_size_x) - peak.wx
BoxJ(peak, m) == (m - peak.offset - BoxK(peak, m)) \div image_size_x

\* mag * tmp * dao_peak->ext[k+wx], with tmp = dao_peak->eyt[j+wy].
PeakFg(peak, m) ==
  peak.params[HEIGHT] * peak.eyt[BoxJ(peak, m) + peak.wy]
                      * peak.ext[BoxK(peak, m) + peak.wx]

PeakBg(peak, m) == peak.params[BACKGROUND] + scmos_term(m)

\* One pass of the pixel loop of addPeak (sgn = 1) or subtractPeak (sgn = -1).
BoxLoop(st, peak, sgn) ==
  LET box == BoxIndex(peak)
      upd(arr, inc(_)) ==
        Norm([m \in (DOMAIN arr) \cup box |->
                Get(arr, m) + (IF m \in box THEN sgn * inc(m) ELSE 0)])
      fg(m) == PeakFg(peak, m)
      bg(m) == PeakBg(peak, m)
      one(m) == 1
  IN  [f_data    |-> upd(st.f_data, fg),
       bg_data   |-> upd(st.bg_data, bg),
       bg_counts |-> upd(st.bg_counts, one)]

\* addPeak(): the peak with offset and the cached exponentials set, and the
\* arrays with the peak added.  "added" records that the peak is now in the
\* arrays (the code has no such field; the spec's data model names it).
addPeakPeak(peak) ==
  LET xc == peak.xc
      yc == peak.yc
      xt(n) == (xc - peak.wx + n) * Unit - peak.params[XCENTER]
      yt(n) == (yc - peak.wy + n) * Unit - peak.params[YCENTER]
  IN  [peak EXCEPT
         !.offset = yc * image_size_x + xc,
         !.ext = [n \in ModelIdx |->
                    IF n <= 2 * peak.wx
                    THEN ExpNeg(xt(n) * xt(n) * peak.params[XWIDTH])
                    ELSE peak.ext[n]],
         !.eyt = [n \in ModelIdx |->
                    IF n <= 2 * peak.wy
                    THEN ExpNeg(yt(n) * yt(n) * peak.params[YWIDTH])
                    ELSE peak.eyt[n]],
         !.added = TRUE]

addPeakStore(st, peak) == BoxLoop(st, addPeakPeak(peak), 1)

\* A faulty subtractPeak() that leaves bg_counts alone; C5 must tell it from
\* the real one.
subtractPeakStore_keepCounts(st, peak) ==
  [BoxLoop(st, peak, -1) EXCEPT !.bg_counts = st.bg_counts]

\* subtractPeak(): uses the offset and the exponentials addPeak() cached.
subtractPeakStore(st, peak) == BoxLoop(st, peak, -1)

subtractPeakPeak(peak) == [peak EXCEPT !.added = FALSE]

\* calcWidth(): the half-width of the box for a width parameter.
\* tmp = 4*sqrt(1/(2*peak_width)), so tmp*tmp = 8/peak_width; the
\* comparisons with tmp are made on the squares (peak_width # 0).
calcWidth(peak_width, old_w) ==
  IF peak_width < 0
  THEN 1
  ELSE LET int_tmp == CHOOSE n \in 0 .. (8 * Unit) :
                        /\ n * n * peak_width <= 8 * Unit
                        /\ 8 * Unit < (n + 1) * (n + 1) * peak_width
           \* fabs(tmp - old_w - 0.5) > HYSTERESIS, in tenths
           hi == 10 * old_w + 5 + HYSTERESIS
           lo == 10 * old_w + 5 - HYSTERESIS
           moved == \/ hi < 0
                    \/ 800 * Unit > hi * hi * peak_width
                    \/ (lo > 0 /\ 800 * Unit < lo * lo * peak_width)
           new_w == IF moved THEN int_tmp ELSE old_w
       IN  IF new_w > MARGIN THEN MARGIN ELSE new_w

\* The width-versus-z coefficients given to initializeZParameters():
\* [wo*wo, c, d, A, B], c and d in fixed point.
wx_z_params == <<1, 0, Unit, 0, 0>>
wy_z_params == <<1, Unit, Unit, 0, 0>>
min_z == -Unit
max_z == Unit

\* 2.0/(wo*wo*tmp) with tmp = 1 + z^2 + A*z^3 + B*z^4, z = (ZCENTER - c)/d.
WidthOfZ(zp, zcenter) ==
  LET z0 == QuoT((zcenter - zp[2]) * Unit, zp[3])
      z1 == QuoT(z0 * z0, Unit)
      z2 == QuoT(z1 * z0, Unit)
      z3 == QuoT(z2 * z0, Unit)
      tmp == Unit + z1 + zp[4] * z2 + zp[5] * z3
  IN  QuoT(2 * Unit * Unit, zp[1] * tmp)

\* calcWidthsFromZ()
calcWidthsFromZ(peak) ==
  [peak EXCEPT
     !.params[XWIDTH] = WidthOfZ(wx_z_params, peak.params[ZCENTER]),
     !.params[YWIDTH] = WidthOfZ(wy_z_params, peak.params[ZCENTER])]

\* updateParams(): every parameter moves by minus its step.  The step given
\* here is the one left after the clamp; clamp and sign memory are not held.
updateParams(peak, delta) ==
  [peak EXCEPT !.params = [p \in 0 .. (NFITTING - 1) |-> peak.params[p] - delta[p]]]

\* A faulty test that measures from the anchor instead of the centre of its
\* pixel; C26 must tell it from the real one.
OffCentre_fromAnchor(center, c) ==
  10 * Abs(center - c * Unit) > HYSTERESIS * Unit

\* fabs(center - (double)c - 0.5) > HYSTERESIS
OffCentre(center, c) ==
  5 * Abs(2 * center - 2 * c * Unit - Unit) > HYSTERESIS * Unit

\* The margin test of fitDataUpdate().
OutsideMargin(xc, yc) ==
  \/ xc <= MARGIN
  \/ xc >= image_size_x - MARGIN - 1
  \/ yc <= MARGIN
  \/ yc >= image_size_y - MARGIN - 1

NegHeight(peak) == peak.params[HEIGHT] < 0

NegWidth(peak) == peak.params[XWIDTH] < 0 \/ peak.params[YWIDTH] < 0

Clamp(v, lo, hi) == IF v < lo THEN lo ELSE IF v > hi THEN hi ELSE v

\* fitDataUpdate(): [peak, diag] after the update with the checks.
fitDataUpdate(peak, dg, delta, zfit) ==
  LET p1 == updateParams(peak, delta)
      p2 == [p1 EXCEPT
               !.xc = IF OffCentre(p1.params[XCENTER], p1.xc)
                      THEN ToInt(p1.params[XCENTER]) ELSE @,
               !.yc = IF OffCentre(p1.params[YCENTER], p1.yc)
                      THEN ToInt(p1.params[YCENTER]) ELSE @]
      m == OutsideMargin(p2.xc, p2.yc)
      h == NegHeight(p2)
      w == NegWidth(p2)
      p3 == [p2 EXCEPT
               !.status = IF m \/ h \/ w THEN ERROR ELSE @,
               !.params[ZCENTER] =
                  IF zfit THEN Clamp(@, min_z, max_z) ELSE @]
      d3 == [dg EXCEPT
               !.n_margin = IF m THEN @ + 1 ELSE @,
               !.n_neg_height = IF h THEN @ + 1 ELSE @,
               !.n_neg_width = IF w THEN @ + 1 ELSE @]
  IN  [peak |-> p3, diag |-> d3]

ZeroDiag ==
  [n_dposv |-> 0, n_margin |-> 0, n_neg_fi |-> 0,
   n_neg_height |-> 0, n_neg_width |-> 0]

\* fi <= 0.0 for some pixel of the peak's box, with
\* fi = f_data[m] + bg_data[m] / ((double)bg_counts[m]).
\* f_data carries the scale of two exponentials, ExpNeg(0)^2; a zero
\* bg_counts[m] makes the quotient +-inf or NaN.
NegFi(st, peak) ==
  \E m \in BoxIndex(peak) :
    LET c == Get(st.bg_counts, m)
        s == Get(st.f_data, m) * c + ExpNeg(0) * ExpNeg(0) * Get(st.bg_data, m)
    IN  IF c > 0 THEN s <= 0
        ELSE IF c < 0 THEN s >= 0
        ELSE Get(st.bg_data, m) < 0

\* calcErr(): acts on a RUNNING peak only.  A non-positive fi makes the peak
\* ERROR (n_neg_fi++); otherwise the peak is CONVERGED when the relative
\* change of its error is below the tolerance (conv, decided by the image).
calcErr(peak, st, dg, conv) ==
  IF peak.status # RUNNING
  THEN [peak |-> peak, diag |-> dg]
  ELSE IF NegFi(st, peak)
  THEN [peak |-> [peak EXCEPT !.status = ERROR],
        diag |-> [dg EXCEPT !.n_neg_fi = @ + 1]]
  ELSE [peak |-> [peak EXCEPT !.status = IF conv THEN CONVERGED ELSE @],
        diag |-> dg]

\* A candidate of peak_data: [status, height, xcenter, ycenter, background,
\* zcenter, xwidth, ywidth], xwidth and ywidth being sigmas.
\* The peak newPeaks() builds from it, before addPeak().
newPeak(cand, zfit) ==
  LET p0 == [status |-> cand.status,
             xc |-> 0, yc |-> 0, wx |-> 0, wy |-> 0, offset |-> 0,
             params |-> [p \in 0 .. (NFITTING - 1) |->
                CASE p = HEIGHT     -> cand.height
                  [] p = XCENTER    -> cand.xcenter
                  [] p = YCENTER    -> cand.ycenter
                  [] p = BACKGROUND -> cand.background
                  [] p = ZCENTER    -> cand.zcenter
                  [] p = XWIDTH     ->
                       QuoT(Unit * Unit * Unit, 2 * cand.xwidth * cand.xwidth)
                  [] OTHER          ->
                       QuoT(Unit * Unit * Unit, 2 * cand.ywidth * cand.ywidth)],
             ext |-> [n \in ModelIdx |-> 0],
             eyt |-> [n \in ModelIdx |-> 0],
             added |-> FALSE]
      p1 == IF zfit THEN calcWidthsFromZ(p0) ELSE p0
  IN  [p1 EXCEPT
         !.xc = ToInt(p1.params[XCENTER]),
         !.yc = ToInt(p1.params[YCENTER]),
         !.wx = calcWidth(p1.params[XWIDTH], -10),
         !.wy = calcWidth(p1.params[YWIDTH], -10)]

\* The first loop of newPeaks(): every candidate is initialised and added.
RECURSIVE newPeaksAdd(_, _, _, _)
newPeaksAdd(cands, zfit, i, acc) ==
  IF i > Len(cands)
  THEN acc
  ELSE LET pk == newPeak(cands[i], zfit)
       IN  newPeaksAdd(cands, zfit, i + 1,
             [fit   |-> Append(acc.fit, addPeakPeak(pk)),
              store |-> addPeakStore(acc.store, pk),
              diag  |-> acc.diag])

\* The second loop of newPeaks(): the initial error calculation.  error and
\* error_old of a RUNNING peak start at 0.0, so no peak converges here.
RECURSIVE newPeaksErr(_, _)
newPeaksErr(i, acc) ==
  IF i > Len(acc.fit)
  THEN acc
  ELSE LET r == calcErr(acc.fit[i], acc.store, acc.diag, FALSE)
       IN  newPeaksErr(i + 1,
             [acc EXCEPT !.fit[i] = r.peak, !.diag = r.diag])

\* newPeaks(): counters and arrays are reset and the old peaks are freed.
newPeaks(cands, zfit) ==
  newPeaksErr(1, newPeaksAdd(cands, zfit, 1,
                   [fit |-> << >>, store |-> EmptyStore, diag |-> ZeroDiag]))

NoDelta == [p \in 0 .. (NFITTING - 1) |-> 0]

\* The part the four update functions share: subtract the peak, fail on
\* info # 0, else fitDataUpdate() and, unless it flagged the peak, the new
\* box (rewidth) and addPeak().
updateBody(peak, st, dg, info, delta, zfit, rewidth(_)) ==
  IF peak.status # RUNNING
  THEN [peak |-> peak, store |-> st, diag |-> dg]
  ELSE LET st1 == subtractPeakStore(st, peak)
           pk1 == subtractPeakPeak(peak)
       IN  IF info # 0
           THEN [peak  |-> [pk1 EXCEPT !.status = ERROR],
                 store |-> st1,
                 diag  |-> [dg EXCEPT !.n_dposv = @ + 1]]
           ELSE LET r == fitDataUpdate(pk1, dg, delta, zfit)
                IN  IF r.peak.status # ERROR
                    THEN LET pk2 == rewidth(r.peak)
                         IN  [peak  |-> addPeakPeak(pk2),
                              store |-> addPeakStore(st1, pk2),
                              diag  |-> r.diag]
                    ELSE [peak |-> r.peak, store |-> st1, diag |-> r.diag]

\* A faulty update2DFixed() that on a failure of dposv_ flags and counts
\* the peak but leaves it in the arrays; C15 must tell it from the real one.
update2DFixed_failStays(peak, st, dg, info, jacobian) ==
  LET delta == [NoDelta EXCEPT
                  ![HEIGHT] = jacobian[0], ![XCENTER] = jacobian[1],
                  ![YCENTER] = jacobian[2], ![BACKGROUND] = jacobian[3]]
      rewidth(p) == p
  IN  IF peak.status = RUNNING /\ info # 0
      THEN [peak |-> [peak EXCEPT !.status = ERROR], store |-> st,
            diag |-> [dg EXCEPT !.n_dposv = @ + 1]]
      ELSE updateBody(peak, st, dg, info, delta, FALSE, rewidth)

\* update2DFixed(): n = 4, the widths and the box stay.
update2DFixed(peak, st, dg, info, jacobian) ==
  LET delta == [NoDelta EXCEPT
                  ![HEIGHT] = jacobian[0], ![XCENTER] = jacobian[1],
                  ![YCENTER] = jacobian[2], ![BACKGROUND] = jacobian[3]]
      rewidth(p) == p
  IN  updateBody(peak, st, dg, info, delta, FALSE, rewidth)

\* A faulty update2D() that takes the half-width in y from YWIDTH; C28 must
\* tell it from the real one.
update2D_ownWy(peak, st, dg, info, jacobian) ==
  LET delta == [NoDelta EXCEPT
                  ![HEIGHT] = jacobian[0], ![XCENTER] = jacobian[1],
                  ![YCENTER] = jacobian[2], ![XWIDTH] = jacobian[3],
                  ![YWIDTH] = jacobian[3], ![BACKGROUND] = jacobian[4]]
      rewidth(p) ==
        [p EXCEPT !.wx = calcWidth(p.params[XWIDTH], p.wx),
                  !.wy = calcWidth(p.params[YWIDTH], p.wy)]
  IN  updateBody(peak, st, dg, info, delta, FALSE, rewidth)

\* update2D(): n = 5, one width for both axes.
update2D(peak, st, dg, info, jacobian) ==
  LET delta == [NoDelta EXCEPT
                  ![HEIGHT] = jacobian[0], ![XCENTER] = jacobian[1],
                  ![YCENTER] = jacobian[2], ![XWIDTH] = jacobian[3],
                  ![YWIDTH] = jacobian[3], ![BACKGROUND] = jacobian[4]]
      rewidth(p) ==
        LET w == calcWidth(p.params[XWIDTH], p.wx)
        IN  [p EXCEPT !.wx = w, !.wy = w]
  IN  updateBody(peak, st, dg, info, delta, FALSE, rewidth)

\* update3D(): n = 6, all of height, centre, widths and background.
update3D(peak, st, dg, info, jacobian) ==
  LET delta == [NoDelta EXCEPT
                  ![HEIGHT] = jacobian[0], ![XCENTER] = jacobian[1],
                  ![XWIDTH] = jacobian[2], ![YCENTER] = jacobian[3],
                  ![YWIDTH] = jacobian[4], ![BACKGROUND] = jacobian[5]]
      rewidth(p) ==
        [p EXCEPT !.wx = calcWidth(p.params[XWIDTH], p.wx),
                  !.wy = calcWidth(p.params[YWIDTH], p.wy)]
  IN  updateBody(peak, st, dg, info, delta, FALSE, rewidth)

\* A faulty updateZ() that moves ZCENTER and leaves XWIDTH and YWIDTH as
\* they were; C19 must tell it from the real one.
updateZ_staleWidths(peak, st, dg, info, jacobian) ==
  LET delta == [NoDelta EXCEPT
                  ![HEIGHT] = jacobian[0], ![XCENTER] = jacobian[1],
                  ![YCENTER] = jacobian[2], ![ZCENTER] = jacobian[3],
                  ![BACKGROUND] = jacobian[4]]
      rewidth(p) ==
        [p EXCEPT !.wx = calcWidth(p.params[XWIDTH], p.wx),
                  !.wy = calcWidth(p.params[YWIDTH], p.wy)]
  IN  updateBody(peak, st, dg, info, delta, TRUE, rewidth)

\* updateZ(): n = 5, the widths follow z.
updateZ(peak, st, dg, info, jacobian) ==
  LET delta == [NoDelta EXCEPT
                  ![HEIGHT] = jacobian[0], ![XCENTER] = jacobian[1],
                  ![YCENTER] = jacobian[2], ![ZCENTER] = jacobian[3],
                  ![BACKGROUND] = jacobian[4]]
      rewidth(p) ==
        LET q == calcWidthsFromZ(p)
        IN  [q EXCEPT !.wx = calcWidth(q.params[XWIDTH], q.wx),
                      !.wy = calcWidth(q.params[YWIDTH], q.wy)]
  IN  updateBody(peak, st, dg, info, delta, TRUE, rewidth)

----------------------------------------------------------------------------
(* The driver of the single-channel fitter *)

Modes == {"2DFixed", "2D", "3D", "Z"}

\* The sigma of a candidate, 0.7 pixels.
CandSigma == (7 * Unit) \div 10

Cand(status, x, y) ==
  [status |-> status, height |-> 2 * Unit, xcenter |-> x, ycenter |-> y,
   background |-> Unit, zcenter |-> 0,
   xwidth |-> CandSigma, ywidth |-> CandSigma]

CandY == 11 * Unit + Unit \div 2
CandA == Cand(RUNNING, 11 * Unit + (3 * Unit) \div 10, CandY)
CandB == Cand(RUNNING, 12 * Unit + (2 * Unit) \div 10, CandY)
CandC == Cand(CONVERGED, 12 * Unit + (2 * Unit) \div 10, CandY)
\* A candidate inside the image but in the border band of MARGIN pixels.
CandEdge == Cand(RUNNING, 5 * Unit + (3 * Unit) \div 10, CandY)

\* A candidate that is wider in y than in x.
CandW == [CandA EXCEPT !.ywidth = Unit]

\* The peak_data arrays given to newPeaks().
CandidateLists ==
  {<<CandA>>, <<CandC, CandA>>, <<CandB, CandEdge>>, <<CandW>>}

\* The solutions dposv_ leaves in jacobian[]: no step, or a step in one
\* coordinate.
Vec(i, v) == [n \in 0 .. 5 |-> IF n = i THEN v ELSE 0]

Solutions ==
  {Vec(0, 0), Vec(0, 2 * Unit), Vec(0, 3 * Unit), Vec(1, -7),
   Vec(2, -8 * Unit), Vec(2, 2 * Unit), Vec(3, 2 * Unit)}

\* The doubles of a peak stay in range, and calcWidth() is never given a
\* zero width (its tmp would be inf, and (int)tmp is undefined).
PeakInRange(peak) ==
  /\ \A p \in 0 .. (NFITTING - 1) : ParamOK(peak.params[p])
  /\ peak.status # ERROR => peak.params[XWIDTH] # 0 /\ peak.params[YWIDTH] # 0

update(m, peak, st, dg, info, jacobian) ==
  CASE m = "2DFixed" -> update2DFixed(peak, st, dg, info, jacobian)
    [] m = "2D"      -> update2D(peak, st, dg, info, jacobian)
    [] m = "3D"      -> update3D(peak, st, dg, info, jacobian)
    [] OTHER         -> updateZ(peak, st, dg, info, jacobian)

DaoInit ==
  /\ mode \in Modes
  /\ fit = << >>
  /\ store = EmptyStore
  /\ diag = ZeroDiag
  /\ pc = "idle"
  /\ idx = 0
  /\ iters = 0

\* newPeaks(fit_data, peak_data, n_peaks)
NewPeaks ==
  /\ sys = "dao"
  /\ pc = "idle"
  /\ \E cands \in CandidateLists :
       LET r == newPeaks(cands, mode = "Z")
       IN  /\ fit' = r.fit
           /\ store' = r.store
           /\ diag' = r.diag
  /\ UNCHANGED <<sys, mode, pc, idx, iters, before, mp, pass>>

\* Entry of iterate2DFixed(), iterate2D(), iterate3D() or iterateZ().
IterateBegin ==
  /\ sys = "dao"
  /\ pc = "idle"
  /\ Len(fit) > 0
  /\ iters < MaxIter
  /\ pc' = "update"
  /\ idx' = 1
  /\ iters' = iters + 1
  /\ UNCHANGED <<sys, mode, fit, store, diag, before, mp, pass>>

\* One turn of the first loop of iterate*(): update*(fit_data, &fit[i]).
UpdateStep ==
  /\ sys = "dao"
  /\ pc = "update"
  /\ \E info \in {0, 1}, jacobian \in Solutions :
       LET r == update(mode, fit[idx], store, diag, info, jacobian)
       IN  /\ PeakInRange(r.peak)
           /\ fit' = [fit EXCEPT ![idx] = r.peak]
           /\ store' = r.store
           /\ diag' = r.diag
  /\ IF idx < Len(fit)
     THEN idx' = idx + 1 /\ pc' = pc
     ELSE idx' = 1 /\ pc' = "err"
  /\ UNCHANGED <<sys, mode, iters, before, mp, pass>>

\* One turn of the second loop of iterate*(): calcErr(fit_data, &fit[i]).
CalcErrStep ==
  /\ sys = "dao"
  /\ pc = "err"
  /\ \E conv \in BOOLEAN :
       LET r == calcErr(fit[idx], store, diag, conv)
       IN  /\ fit' = [fit EXCEPT ![idx] = r.peak]
           /\ diag' = r.diag
  /\ IF idx < Len(fit)
     THEN idx' = idx + 1 /\ pc' = pc
     ELSE idx' = 0 /\ pc' = "idle"
  /\ UNCHANGED <<sys, mode, store, iters, before, mp, pass>>

NextDao == NewPeaks \/ IterateBegin \/ UpdateStep \/ CalcErrStep

----------------------------------------------------------------------------
(* addPeak() then subtractPeak() on an arbitrary store and peak *)

\* Two pixels that carry earlier content: one next to the candidates'
\* anchors and one far from them.  Each is inside the box of some of the
\* peaks below and outside the box of others.
ProbeIn == 11 * image_size_x + 12
ProbeOut == 2 * image_size_x + 3

RTStores ==
  {[f_data    |-> Norm(f),
    bg_data   |-> Norm([m \in DOMAIN b |-> b[m] * Unit]),
    bg_counts |-> Norm(c)] :
     f \in [{ProbeIn, ProbeOut} -> {0, 5}],
     b \in [{ProbeIn, ProbeOut} -> {0, -3}],
     c \in [{ProbeIn, ProbeOut} -> {0, 1}]}

\* Initialised peaks that are not in the arrays, of several box sizes and of
\* positive and negative height.
RTPeaks ==
  {[newPeak(cand, FALSE) EXCEPT !.wx = w[1], !.wy = w[2], !.params[HEIGHT] = h] :
     cand \in {CandA, CandB},
     w \in {<<0, 1>>, <<2, 2>>, <<1, 3>>, <<MARGIN, MARGIN>>},
     h \in {2 * Unit, -Unit}}

RTInit ==
  /\ mode = "3D"
  /\ store \in RTStores
  /\ before = store
  /\ fit \in {<<p>> : p \in RTPeaks}
  /\ diag = ZeroDiag
  /\ pc = "rt0"
  /\ idx = 0
  /\ iters = 0

RTAdd ==
  /\ sys = "rt"
  /\ pc = "rt0"
  /\ fit' = <<addPeakPeak(fit[1])>>
  /\ store' = addPeakStore(store, fit[1])
  /\ pc' = "rt1"
  /\ UNCHANGED <<sys, mode, diag, idx, iters, before, mp, pass>>

RTSubtract ==
  /\ sys = "rt"
  /\ pc = "rt1"
  /\ fit' = <<subtractPeakPeak(fit[1])>>
  /\ store' = subtractPeakStore(store, fit[1])
  /\ pc' = "rt2"
  /\ UNCHANGED <<sys, mode, diag, idx, iters, before, mp, pass>>

NextRT == RTAdd \/ RTSubtract

----------------------------------------------------------------------------
(* multi_plane/mp_fit.c: the per-channel fitter it drives *)

\* n_channels given to mpInitialize().
n_channels == 2
Channels == 0 .. (n_channels - 1)

\* Half the side of the box of a sampled PSF.
psf_half == 1

\* xoff and yoff of a channel's fit_data: half a pixel.
xoff == Unit \div 2
yoff == Unit \div 2

\* The pixels of the working peak's box, anchored at (xi, yi).
MpBox(peak) ==
  {j * image_size_x + k + peak.yi * image_size_x + peak.xi :
     j \in (-psf_half) .. psf_half, k \in (-psf_half) .. psf_half}

\* The cached shape of the PSF at pixel m of the box: 2 at the anchor, 1
\* elsewhere.
PsfShape(peak, m) == IF m = peak.yi * image_size_x + peak.xi THEN 2 ELSE 1

MpBoxLoop(st, peak, sgn) ==
  LET box == MpBox(peak)
      upd(arr, inc(_)) ==
        Norm([m \in (DOMAIN arr) \cup box |->
                Get(arr, m) + (IF m \in box THEN sgn * inc(m) ELSE 0)])
      fg(m) == peak.params[HEIGHT] * PsfShape(peak, m)
      bg(m) == peak.params[BACKGROUND] + scmos_term(m)
      one(m) == 1
  IN  [f_data    |-> upd(st.f_data, fg),
       bg_data   |-> upd(st.bg_data, bg),
       bg_counts |-> upd(st.bg_counts, one)]

\* fn_add_peak(fit_data): adds the working peak to the arrays.
fn_add_peak(fd) ==
  [fd EXCEPT !.store = MpBoxLoop(fd.store, fd.working_peak, 1),
             !.working_peak.added = TRUE]

\* fn_subtract_peak(fit_data): the inverse, on the working peak.
fn_subtract_peak(fd) ==
  [fd EXCEPT !.store = MpBoxLoop(fd.store, fd.working_peak, -1),
             !.working_peak.added = FALSE]

\* fi <= 0.0 at some pixel of the working peak's box.
MpNegFi(fd) ==
  \E m \in MpBox(fd.working_peak) :
    LET c == Get(fd.store.bg_counts, m)
        s == Get(fd.store.f_data, m) * c + Get(fd.store.bg_data, m)
    IN  IF c > 0 THEN s <= 0
        ELSE IF c < 0 THEN s >= 0
        ELSE Get(fd.store.bg_data, m) < 0

\* mFitCalcErr(fit_data): nonzero, with the working peak ERROR, on a
\* non-positive fi.  conv: the convergence test of the original driver's
\* error pass succeeded for this peak.
mFitCalcErrBad(fd) == fd.working_peak.status = RUNNING /\ MpNegFi(fd)

mFitCalcErr(fd, conv) ==
  IF fd.working_peak.status # RUNNING
  THEN fd
  ELSE IF MpNegFi(fd)
  THEN [fd EXCEPT !.working_peak.status = ERROR]
  ELSE [fd EXCEPT !.working_peak.status = IF conv THEN CONVERGED ELSE @]

\* mFitUpdateParam(peak, delta, p): the parameter moves by minus delta.
mFitUpdateParam(peak, delta, p) ==
  [peak EXCEPT !.params[p] = @ - delta]

\* fn_zrange(fit_data): ZCENTER of the working peak is clamped.
fn_zrange(peak) ==
  [peak EXCEPT !.params[ZCENTER] = Clamp(@, min_z, max_z)]

\* The margin test on the anchor of a sampled-PSF peak.
MpOutsideMargin(xi, yi) ==
  \/ xi < MARGIN
  \/ xi > image_size_x - MARGIN - 1
  \/ yi < MARGIN
  \/ yi > image_size_y - MARGIN - 1

\* fn_check(fit_data): nonzero, with the working peak ERROR, when the peak
\* is in the border band, its height is not positive or z is out of range.
fn_checkBad(peak) ==
  \/ MpOutsideMargin(peak.xi, peak.yi)
  \/ peak.params[HEIGHT] <= 0
  \/ peak.params[ZCENTER] < min_z
  \/ peak.params[ZCENTER] > max_z

fn_check(fd) ==
  IF fn_checkBad(fd.working_peak)
  THEN [fd EXCEPT !.working_peak.status = ERROR]
  ELSE fd

\* (int)round(v) for the double v = a/Unit: half away from zero.
RoundInt(a) ==
  IF a >= 0 THEN (2 * a + Unit) \div (2 * Unit)
  ELSE -((2 * (-a) + Unit) \div (2 * Unit))

\* One peak of fn_newpeaks(): the parameters, the anchor, and addPeak unless
\* the anchor is in the border band.  est = [h, bg]: the height and the
\* background the fitter reads off the image ("finder", "testing") or is
\* given ("hdf5").
fn_newpeak(x, y, z, est) ==
  LET xi == RoundInt(x - xoff)
      yi == RoundInt(y - yoff)
      bad == MpOutsideMargin(xi, yi)
  IN  [status |-> IF bad THEN ERROR ELSE RUNNING,
       xi |-> xi, yi |-> yi,
       params |-> [p \in 0 .. (NFITTING - 1) |->
          CASE p = HEIGHT     -> est.h
            [] p = XCENTER    -> x - xoff
            [] p = YCENTER    -> y - yoff
            [] p = BACKGROUND -> est.bg
            [] p = ZCENTER    -> z
            [] OTHER          -> Unit],
       added |-> FALSE,
       lambda |-> [up |-> 0, down |-> 0]]

\* fn_newpeaks(fit_data, peak_params, p_type, n_peaks): the peaks are
\* appended in order; cands[i] = [x, y, z], ests[i] = [h, bg].
RECURSIVE fn_newpeaks(_, _, _, _)
fn_newpeaks(fd, cands, ests, i) ==
  IF i > Len(cands)
  THEN fd
  ELSE LET pk == fn_newpeak(cands[i].x, cands[i].y, cands[i].z, ests[i])
           f1 == [fd EXCEPT !.working_peak = pk]
           f2 == IF pk.status # ERROR THEN fn_add_peak(f1) ELSE f1
       IN  fn_newpeaks([f2 EXCEPT !.fit = Append(@, f2.working_peak)],
                       cands, ests, i + 1)

----------------------------------------------------------------------------
(* multi_plane/mp_fit.c: the coordinator *)

\* The transforms given to mpSetTransforms(), indexed [i*3 + k]: channel 0
\* is the identity, channel 1 is mirrored in x.  The constant term is in
\* fixed point.
yt_0toN == [n \in 0 .. (3 * n_channels - 1) |->
              CASE n = 2 -> 1 [] n = 3 -> 25 * Unit [] n = 5 -> -1 [] OTHER -> 0]
xt_0toN == [n \in 0 .. (3 * n_channels - 1) |->
              CASE n = 1 -> 1 [] n = 4 -> 1 [] OTHER -> 0]
yt_Nto0 == [n \in 0 .. (3 * n_channels - 1) |->
              CASE n = 2 -> 1 [] n = 3 -> 25 * Unit [] n = 5 -> -1 [] OTHER -> 0]
xt_Nto0 == [n \in 0 .. (3 * n_channels - 1) |->
              CASE n = 1 -> 1 [] n = 4 -> 1 [] OTHER -> 0]

\* The weights given to mpSetWeights(), indexed [zi*nc + i], and the
\* indexing given to mpSetWeightsIndexing().
n_weights == 2
w_h == [n \in 0 .. (n_weights * n_channels - 1) |-> IF n = 3 THEN 3 ELSE 1]
w_x == [n \in 0 .. (n_weights * n_channels - 1) |-> IF n = 3 THEN 3 ELSE 1]
w_y == [n \in 0 .. (n_weights * n_channels - 1) |-> IF n = 3 THEN 3 ELSE 1]
w_z == [n \in 0 .. (n_weights * n_channels - 1) |-> IF n = 3 THEN 3 ELSE 1]
w_z_scale == 1
w_z_offset == -Unit

\* Sum of f(i) over the channels 0 .. n.
RECURSIVE SumTo(_, _)
SumTo(f(_), n) == IF n < 0 THEN 0 ELSE f(n) + SumTo(f, n - 1)

\* A faulty mpCopyFromWorking() that sets the status in channel 0 only; C2
\* must tell it from the real one.
mpCopyFromWorking_first(m, index, status) ==
  [m EXCEPT !.fit_data = [i \in Channels |->
     LET fd == m.fit_data[i]
         wp == IF i = 0 THEN [fd.working_peak EXCEPT !.status = status]
               ELSE fd.working_peak
     IN  [fd EXCEPT !.working_peak = wp, !.fit[index] = wp]]]

\* mpCopyFromWorking()
mpCopyFromWorking(m, index, status) ==
  [m EXCEPT !.fit_data = [i \in Channels |->
     LET fd == m.fit_data[i]
         wp == [fd.working_peak EXCEPT !.status = status]
     IN  [fd EXCEPT !.working_peak = wp, !.fit[index] = wp]]]

\* A faulty mpResetWorkingPeaks() that restores the peak and keeps lambda
\* as it was; C21 must tell it from the real one.
mpResetWorkingPeaks_keepLambda(m, index) ==
  [m EXCEPT !.fit_data = [i \in Channels |->
     LET fd == m.fit_data[i]
     IN  [fd EXCEPT !.working_peak =
            [fd.fit[index] EXCEPT
               !.added = fd.working_peak.added,
               !.lambda = fd.working_peak.lambda,
               !.status = ERROR]]]]

\* mpResetWorkingPeaks(): lambda moves up by one factor of LAMBDAUP.
mpResetWorkingPeaks(m, index) ==
  [m EXCEPT !.fit_data = [i \in Channels |->
     LET fd == m.fit_data[i]
     IN  [fd EXCEPT !.working_peak =
            [fd.fit[index] EXCEPT
               !.added = fd.working_peak.added,
               !.lambda = [fd.working_peak.lambda EXCEPT !.up = @ + 1],
               !.status = ERROR]]]]

\* A faulty index that rounds to the nearest integer instead of
\* truncating; C25 must tell it from the real one.
WeightIndexOf_round(zcenter, scale, offset, nw) ==
  LET zi == RoundInt(scale * (zcenter - offset))
  IN  IF zi < 0 THEN 0
      ELSE IF zi >= nw THEN nw - 1
      ELSE zi

\* zi of mpUpdate() and mpUpdateFixed() for the weights indexing
\* (scale, offset, nw): the cast truncates, then the two range tests.
WeightIndexOf(zcenter, scale, offset, nw) ==
  LET zi == ToInt(scale * (zcenter - offset))
  IN  IF zi < 0 THEN 0
      ELSE IF zi >= nw THEN nw - 1
      ELSE zi

\* The index into the weights of mpUpdate() and mpUpdateFixed().
WeightIndex(zcenter) ==
  WeightIndexOf(zcenter, w_z_scale, w_z_offset, n_weights)

\* A faulty test that measures from half a pixel beyond the anchor, as the
\* single-channel fitter does; C27 must tell it from the real one.
MpOffCentre_half(center, c) ==
  5 * Abs(2 * center - 2 * c * Unit - Unit) > HYSTERESIS * Unit

\* fabs(center - (double)c) > HYSTERESIS
MpOffCentre(center, c) == 10 * Abs(center - c * Unit) > HYSTERESIS * Unit

\* A faulty mapping that leaves out the half-pixel offsets; C4 must tell it
\* from the real one.
mpUpdateMap_noOffset(i, p0, pk) ==
  [pk EXCEPT
     !.params[XCENTER] =
        yt_0toN[i * 3] + yt_0toN[i * 3 + 1] * p0.params[YCENTER]
          + yt_0toN[i * 3 + 2] * p0.params[XCENTER],
     !.params[YCENTER] =
        xt_0toN[i * 3] + xt_0toN[i * 3 + 1] * p0.params[YCENTER]
          + xt_0toN[i * 3 + 2] * p0.params[XCENTER]]

\* mpUpdate(), "Use mapping to update peak locations in the remaining
\* channels": the centre of channel i from the centre of channel 0.
mpUpdateMap(i, p0, pk) ==
  [pk EXCEPT
     !.params[XCENTER] =
        yt_0toN[i * 3]
          + yt_0toN[i * 3 + 1] * (p0.params[YCENTER] + yoff)
          + yt_0toN[i * 3 + 2] * (p0.params[XCENTER] + xoff) - xoff,
     !.params[YCENTER] =
        xt_0toN[i * 3]
          + xt_0toN[i * 3 + 1] * (p0.params[YCENTER] + yoff)
          + xt_0toN[i * 3 + 2] * (p0.params[XCENTER] + xoff) - yoff]

\* mpUpdate(): w_jacobian[i][0 .. 4] are the steps of channel i.
mpUpdate(m, w_jacobian) ==
  LET nc == n_channels
      heights == m.heights
      zi == WeightIndex(m.fit_data[0].working_peak.params[ZCENTER])
      dx(i) == yt_Nto0[i * 3 + 1] * w_jacobian[i][2]
                 + yt_Nto0[i * 3 + 2] * w_jacobian[i][1]
      xa(i) == dx(i) * w_x[zi * nc + i] * heights[i]
      xw(i) == w_x[zi * nc + i] * heights[i]
      dy(i) == xt_Nto0[i * 3 + 1] * w_jacobian[i][2]
                 + xt_Nto0[i * 3 + 2] * w_jacobian[i][1]
      ya(i) == dy(i) * w_y[zi * nc + i] * heights[i]
      yw(i) == w_y[zi * nc + i] * heights[i]
      za(i) == w_jacobian[i][3] * w_z[zi * nc + i] * heights[i]
      zw(i) == w_z[zi * nc + i] * heights[i]
      p0a == mFitUpdateParam(m.fit_data[0].working_peak,
                             QuoT(SumTo(xa, nc - 1), SumTo(xw, nc - 1)), XCENTER)
      p0 == mFitUpdateParam(p0a,
                            QuoT(SumTo(ya, nc - 1), SumTo(yw, nc - 1)), YCENTER)
      mapped(i) ==
        IF i = 0 THEN p0
        ELSE mpUpdateMap(i, p0, m.fit_data[i].working_peak)
      moved(i) ==
        LET pk == mapped(i)
        IN  [pk EXCEPT
               !.xi = IF MpOffCentre(pk.params[XCENTER], pk.xi)
                      THEN RoundInt(pk.params[XCENTER]) ELSE @,
               !.yi = IF MpOffCentre(pk.params[YCENTER], pk.yi)
                      THEN RoundInt(pk.params[YCENTER]) ELSE @]
      dz == QuoT(SumTo(za, nc - 1), SumTo(zw, nc - 1))
      final(i) ==
        mFitUpdateParam(fn_zrange(mFitUpdateParam(moved(i), dz, ZCENTER)),
                        w_jacobian[i][4], BACKGROUND)
  IN  [m EXCEPT !.fit_data = [i \in Channels |->
         [m.fit_data[i] EXCEPT !.working_peak = final(i)]]]

\* mpUpdateFixed(): one height for all channels, then mpUpdate().
mpUpdateFixed(m, w_jacobian) ==
  LET nc == n_channels
      zi == WeightIndex(m.fit_data[0].working_peak.params[ZCENTER])
      ha(i) == w_jacobian[i][0] * w_h[zi * nc + i]
      hw(i) == w_h[zi * nc + i]
      p0 == mFitUpdateParam(m.fit_data[0].working_peak,
                            QuoT(SumTo(ha, nc - 1), SumTo(hw, nc - 1)), HEIGHT)
      m1 == [m EXCEPT !.fit_data = [i \in Channels |->
               [m.fit_data[i] EXCEPT !.working_peak =
                  IF i = 0 THEN p0
                  ELSE [@ EXCEPT !.params[HEIGHT] = p0.params[HEIGHT]]]]]
  IN  mpUpdate(m1, w_jacobian)

\* mpUpdateIndependent(): each channel moves its own height, floored at
\* 0.01 (the smallest positive value the fixed point holds).
mpUpdateIndependent(m, w_jacobian) ==
  LET floor == (Unit + 99) \div 100
      pk(i) ==
        LET q == mFitUpdateParam(m.fit_data[i].working_peak,
                                 w_jacobian[i][0], HEIGHT)
        IN  [q EXCEPT !.params[HEIGHT] = IF @ < floor THEN floor ELSE @]
      m1 == [m EXCEPT
               !.fit_data = [i \in Channels |->
                  [m.fit_data[i] EXCEPT !.working_peak = pk(i)]],
               !.heights = [i \in Channels |-> pk(i).params[HEIGHT]]]
  IN  mpUpdate(m1, w_jacobian)

\* mp_fit->fn_update, set by mpInitialize().
fn_update(m, w_jacobian) ==
  IF m.independent_heights
  THEN mpUpdateIndependent(m, w_jacobian)
  ELSE mpUpdateFixed(m, w_jacobian)

\* mp_fit->nfit
MpNfit(m) == Len(m.fit_data[0].fit)

\* The candidates of channel i: channel 0 takes them as given, the others
\* through the forward transform.
MappedCands(cands, i) ==
  [j \in 1 .. Len(cands) |->
     IF i = 0 THEN cands[j]
     ELSE [cands[j] EXCEPT
             !.x = yt_0toN[i * 3] + cands[j].y * yt_0toN[i * 3 + 1]
                     + cands[j].x * yt_0toN[i * 3 + 2],
             !.y = xt_0toN[i * 3] + cands[j].y * xt_0toN[i * 3 + 1]
                     + cands[j].x * xt_0toN[i * 3 + 2]]]

\* A faulty height correction that re-adds the peak at the mean height on
\* top of the contribution at the old height; C11 must tell it from the
\* real one.
mpNewPeaksHeight_noSubtract(m, i) ==
  LET hsum(j) == m.fit_data[j].fit[i].params[HEIGHT]
      height == QuoT(SumTo(hsum, n_channels - 1), n_channels)
      one(j) ==
        LET f0 == [m.fit_data[j] EXCEPT !.working_peak = m.fit_data[j].fit[i]]
            f2 == [f0 EXCEPT !.working_peak.params[HEIGHT] = height]
            f3 == IF f2.working_peak.status # ERROR
                  THEN mFitCalcErr(fn_add_peak(f2), FALSE) ELSE f2
        IN  [f3 EXCEPT !.fit[i] = f3.working_peak]
  IN  [m EXCEPT !.fit_data = [j \in Channels |-> one(j)]]

\* The height correction of mpNewPeaks() for emitter i (fixed heights).
mpNewPeaksHeight(m, i) ==
  LET hsum(j) == m.fit_data[j].fit[i].params[HEIGHT]
      height == QuoT(SumTo(hsum, n_channels - 1), n_channels)
      one(j) ==
        LET f0 == [m.fit_data[j] EXCEPT !.working_peak = m.fit_data[j].fit[i]]
            f1 == IF f0.working_peak.status # ERROR
                  THEN fn_subtract_peak(f0) ELSE f0
            f2 == [f1 EXCEPT !.working_peak.params[HEIGHT] = height]
            f3 == IF f2.working_peak.status # ERROR
                  THEN mFitCalcErr(fn_add_peak(f2), FALSE) ELSE f2
        IN  [f3 EXCEPT !.fit[i] = f3.working_peak]
  IN  [m EXCEPT !.fit_data = [j \in Channels |-> one(j)]]

\* A faulty synchronisation that subtracts the peers of an ERROR peak and
\* leaves their status; C8 must tell it from the real one.
mpNewPeaksSync_noStatus(m, i) ==
  LET is_bad == \E j \in Channels : m.fit_data[j].fit[i].status = ERROR
      one(j) ==
        LET fd == m.fit_data[j]
        IN  IF fd.fit[i].status # ERROR
            THEN fn_subtract_peak([fd EXCEPT !.working_peak = fd.fit[i]])
            ELSE fd
  IN  IF is_bad
      THEN [m EXCEPT !.fit_data = [j \in Channels |-> one(j)]]
      ELSE m

\* The status synchronisation of mpNewPeaks() for emitter i.
mpNewPeaksSync(m, i) ==
  LET is_bad == \E j \in Channels : m.fit_data[j].fit[i].status = ERROR
      one(j) ==
        LET fd == m.fit_data[j]
            f1 == IF fd.fit[i].status # ERROR
                  THEN fn_subtract_peak([fd EXCEPT !.working_peak = fd.fit[i]])
                  ELSE fd
        IN  [f1 EXCEPT !.fit[i].status = ERROR]
  IN  IF is_bad
      THEN [m EXCEPT !.fit_data = [j \in Channels |-> one(j)]]
      ELSE m

\* f applied to m for i = lo, lo + 1, .., hi in this order.
RECURSIVE ForEach(_, _, _, _)
ForEach(f(_, _), m, lo, hi) ==
  IF lo > hi THEN m ELSE ForEach(f, f(m, lo), lo + 1, hi)

\* mpNewPeaks(mp_fit, peak_params, p_type, n_peaks).  ests[i][j] is what
\* channel i's fitter takes as height and background of candidate j.
mpNewPeaks(m, cands, ests, p_type) ==
  LET start == MpNfit(m) + 1
      stop == MpNfit(m) + Len(cands)
      m1 == [m EXCEPT !.fit_data = [i \in Channels |->
               fn_newpeaks(m.fit_data[i], MappedCands(cands, i), ests[i], 1)]]
      m2 == IF p_type = "finder" /\ ~m.independent_heights
            THEN ForEach(mpNewPeaksHeight, m1, start, stop)
            ELSE m1
  IN  ForEach(mpNewPeaksSync, m2, start, stop)

\* mpIterateOriginal(), first loop for emitter i, the channel loop: the
\* channels up to the one whose mFitSolve() fails are loaded and subtracted.
mpIterateOriginalSolve(m, i, fail) ==
  [m EXCEPT !.fit_data = [j \in Channels |->
     IF j <= fail
     THEN fn_subtract_peak(
            [m.fit_data[j] EXCEPT !.working_peak = m.fit_data[j].fit[i]])
     ELSE m.fit_data[j]]]

\* mpIterateOriginal(), first loop for emitter i, after fn_update(): the
\* check, then ERROR for the group or the peaks added and copied back.
mpIterateOriginalCheck(m, i) ==
  LET m3 == [m EXCEPT !.fit_data = [j \in Channels |-> fn_check(m.fit_data[j])]]
      is_bad == \E j \in Channels : fn_checkBad(m.fit_data[j].working_peak)
  IN  IF is_bad
      THEN mpCopyFromWorking(m3, i, ERROR)
      ELSE [m3 EXCEPT !.fit_data = [j \in Channels |->
              LET fd == fn_add_peak(m3.fit_data[j])
              IN  [fd EXCEPT !.fit[i] = fd.working_peak]]]

\* The first loop of mpIterateOriginal() for emitter i.  fail is the channel
\* whose mFitSolve() returns nonzero, n_channels if none does.
mpIterateOriginalUpdate(m, i, fail, w_jacobian) ==
  IF m.fit_data[0].fit[i].status # RUNNING
  THEN m
  ELSE Only({IF fail < n_channels
             THEN mpCopyFromWorking(m1, i, ERROR)
             ELSE Only({mpIterateOriginalCheck(m2, i) :
                          m2 \in {fn_update(m1, w_jacobian)}}) :
               m1 \in {mpIterateOriginalSolve(m, i, fail)}})

\* A faulty second loop that does not skip the emitters that are not
\* RUNNING; C13 must tell it from the real one.
mpIterateOriginalErr_noSkip(m, i, conv) ==
  LET loaded(j) == [m.fit_data[j] EXCEPT
                      !.working_peak = m.fit_data[j].fit[i]]
      is_bad == \E j \in Channels : mFitCalcErrBad(loaded(j))
      m1 == [m EXCEPT !.fit_data = [j \in Channels |->
               LET fd == mFitCalcErr(loaded(j), conv[j])
               IN  [fd EXCEPT !.fit[i] = fd.working_peak]]]
      is_converged ==
        \A j \in Channels : m1.fit_data[j].working_peak.status = CONVERGED
      m2 == IF is_converged
            THEN m1
            ELSE [m1 EXCEPT !.fit_data = [j \in Channels |->
                    [m1.fit_data[j] EXCEPT !.fit[i].status = RUNNING]]]
  IN  IF is_bad
      THEN [m2 EXCEPT !.fit_data = [j \in Channels |->
              LET fd == fn_subtract_peak(
                          [m2.fit_data[j] EXCEPT
                             !.working_peak = m2.fit_data[j].fit[i]])
              IN  [fd EXCEPT !.fit[i].status = ERROR]]]
      ELSE m2

\* A faulty second loop that leaves each channel the status of its own
\* convergence test; C23 must tell it from the real one.
mpIterateOriginalErr_ownStatus(m, i, conv) ==
  IF m.fit_data[0].fit[i].status # RUNNING
  THEN m
  ELSE LET loaded(j) == [m.fit_data[j] EXCEPT
                           !.working_peak = m.fit_data[j].fit[i]]
           is_bad == \E j \in Channels : mFitCalcErrBad(loaded(j))
           m1 == [m EXCEPT !.fit_data = [j \in Channels |->
                    LET fd == mFitCalcErr(loaded(j), conv[j])
                    IN  [fd EXCEPT !.fit[i] = fd.working_peak]]]
       IN  IF is_bad
           THEN [m1 EXCEPT !.fit_data = [j \in Channels |->
                   LET fd == fn_subtract_peak(
                               [m1.fit_data[j] EXCEPT
                                  !.working_peak = m1.fit_data[j].fit[i]])
                   IN  [fd EXCEPT !.fit[i].status = ERROR]]]
           ELSE m1

\* The second loop of mpIterateOriginal() for emitter i.  conv[j]: the
\* convergence test succeeds in channel j.
mpIterateOriginalErr(m, i, conv) ==
  IF m.fit_data[0].fit[i].status # RUNNING
  THEN m
  ELSE LET loaded(j) == [m.fit_data[j] EXCEPT
                           !.working_peak = m.fit_data[j].fit[i]]
           is_bad == \E j \in Channels : mFitCalcErrBad(loaded(j))
           m1 == [m EXCEPT !.fit_data = [j \in Channels |->
                    LET fd == mFitCalcErr(loaded(j), conv[j])
                    IN  [fd EXCEPT !.fit[i] = fd.working_peak]]]
           is_converged ==
             \A j \in Channels : m1.fit_data[j].working_peak.status = CONVERGED
           m2 == IF is_converged
                 THEN m1
                 ELSE [m1 EXCEPT !.fit_data = [j \in Channels |->
                         [m1.fit_data[j] EXCEPT !.fit[i].status = RUNNING]]]
       IN  IF is_bad
           THEN [m2 EXCEPT !.fit_data = [j \in Channels |->
                   LET fd == fn_subtract_peak(
                               [m2.fit_data[j] EXCEPT
                                  !.working_peak = m2.fit_data[j].fit[i]])
                   IN  [fd EXCEPT !.fit[i].status = ERROR]]]
           ELSE m2

\* mp_fit->tolerance, given to mpInitialize(): 1/Unit.
tolerance == 1

\* The decision of mpIterateLM() on the summed errors.
LMDecide(starting_error, current_error) ==
  IF current_error > starting_error
  THEN IF (current_error - starting_error) * Unit < tolerance * starting_error
       THEN "converged" ELSE "retry"
  ELSE IF starting_error # 0
            /\ (starting_error - current_error) * Unit < tolerance * starting_error
       THEN "converged" ELSE "commit"

\* mpIterateLM() for emitter i, up to the while(1) loop.  n_add starts at
\* n_channels and goes down by one with each fn_subtract_peak().
mpIterateLMStart(m, i) ==
  [m EXCEPT !.fit_data = [j \in Channels |->
     fn_subtract_peak(
       mFitCalcErr([m.fit_data[j] EXCEPT !.working_peak = m.fit_data[j].fit[i]],
                   FALSE))],
            !.n_add = n_channels - Cardinality(Channels)]

\* A faulty undo that subtracts the peaks and leaves n_add; C14 must tell
\* it from the real one.
mpIterateLMUndo_noCount(m) ==
  [m EXCEPT !.fit_data = [k \in Channels |-> fn_subtract_peak(m.fit_data[k])]]

\* The undo of the peak addition in the while(1) loop of mpIterateLM():
\* every channel's working peak is subtracted, n_add goes down by one each.
mpIterateLMUndo(m) ==
  [m EXCEPT !.fit_data = [k \in Channels |-> fn_subtract_peak(m.fit_data[k])],
            !.n_add = @ - Cardinality(Channels)]

\* The while(1) loop of mpIterateLM() for emitter i, from the error
\* calculation on: m has the updated peaks added.  err[k] is the error
\* mFitCalcErr() leaves in channel k's working peak.
mpIterateLMJudge(m, i, starting_error, err) ==
  LET m6 == [m EXCEPT !.fit_data = [k \in Channels |->
               mFitCalcErr(m.fit_data[k], FALSE)]]
      failed(k) == IF mFitCalcErrBad(m.fit_data[k]) THEN err[k] ELSE 0
      err_bad == \E k \in Channels : mFitCalcErrBad(m.fit_data[k])
      current_error == SumTo(failed, n_channels - 1)
      undone == mpIterateLMUndo(m6)
      decision == LMDecide(starting_error, current_error)
  IN  IF err_bad THEN [m |-> mpResetWorkingPeaks(undone, i), done |-> FALSE]
      ELSE IF decision = "converged"
      THEN [m |-> [m6 EXCEPT !.fit_data = [k \in Channels |->
                     [m6.fit_data[k] EXCEPT !.working_peak.status = CONVERGED]]],
            done |-> TRUE]
      ELSE IF decision = "retry"
      THEN [m |-> mpResetWorkingPeaks(undone, i), done |-> FALSE]
      ELSE [m |-> [m6 EXCEPT !.fit_data = [k \in Channels |->
                     [m6.fit_data[k] EXCEPT !.working_peak.lambda.down = @ + 1]]],
            done |-> TRUE]

\* A faulty check that goes to the next attempt from the updated working
\* peaks instead of the stored ones; C22 must tell it from the real one.
mpIterateLMCheck_noReset(m, i, starting_error, err) ==
  IF \E k \in Channels : fn_checkBad(m.fit_data[k].working_peak)
  THEN [m |-> [m EXCEPT !.fit_data = [k \in Channels |->
                 [m.fit_data[k] EXCEPT !.working_peak.status = ERROR,
                                       !.working_peak.lambda.up = @ + 1]]],
        done |-> FALSE]
  ELSE Only({mpIterateLMJudge(m5, i, starting_error, err) :
               m5 \in {[m EXCEPT !.fit_data = [k \in Channels |->
                                     fn_add_peak(m.fit_data[k])],
                                   !.n_add = @ + Cardinality(Channels)]}})

\* The while(1) loop of mpIterateLM() for emitter i, after fn_update(): the
\* check, then the peaks are added, n_add going up by one each.
mpIterateLMCheck(m, i, starting_error, err) ==
  IF \E k \in Channels : fn_checkBad(m.fit_data[k].working_peak)
  THEN [m |-> mpResetWorkingPeaks(
                [m EXCEPT !.fit_data = [k \in Channels |-> fn_check(m.fit_data[k])]],
                i),
        done |-> FALSE]
  ELSE Only({mpIterateLMJudge(m5, i, starting_error, err) :
               m5 \in {[m EXCEPT !.fit_data = [k \in Channels |->
                                     fn_add_peak(m.fit_data[k])],
                                   !.n_add = @ + Cardinality(Channels)]}})

\* One pass of the while(1) loop of mpIterateLM() for emitter i:
\* [m, done], done when the pass ends in break.
mpIterateLMPass(m, i, fail, w_jacobian, starting_error, err) ==
  LET m0 == [m EXCEPT !.fit_data = [k \in Channels |->
               [m.fit_data[k] EXCEPT !.working_peak.status = RUNNING]]]
      m1 == [m EXCEPT !.fit_data = [k \in Channels |->
               [m.fit_data[k] EXCEPT
                  !.working_peak.status = ERROR,
                  !.working_peak.lambda.up = @ + 1]]]
  IN  IF fail < n_channels THEN [m |-> m1, done |-> FALSE]
      ELSE Only({mpIterateLMCheck(m3, i, starting_error, err) :
                   m3 \in {fn_update(m0, w_jacobian)}})

\* The end of mpIterateLM() for emitter i.
mpIterateLMCommit(m, i) ==
  mpCopyFromWorking(m, i, m.fit_data[0].working_peak.status)

----------------------------------------------------------------------------
(* The driver of the multi-plane fitter *)

\* Candidates [x, y, z, h, bg]; h and bg are read for "hdf5" only.
MpCand(x0, y0) ==
  [x |-> x0 + xoff, y |-> y0 + yoff, z |-> 0, h |-> 2 * Unit, bg |-> Unit]

\* The emitters of the frame, in the order the finder reports them; the
\* last is in the border band of channel 0 and inside channel 1.
Scene ==
  <<MpCand(11 * Unit + (3 * Unit) \div 10, 11 * Unit + (2 * Unit) \div 10),
    [MpCand(14 * Unit + (2 * Unit) \div 10, 11 * Unit + (2 * Unit) \div 10)
       EXCEPT !.z = Unit \div 2]>>

\* What the channels read off the image for a "finder" candidate.
Estimates ==
  {[i \in Channels |-> [h |-> IF i = 0 THEN 2 * Unit ELSE 4 * Unit, bg |-> Unit]],
   [i \in Channels |-> [h |-> IF i = 0 THEN 2 * Unit ELSE 4 * Unit,
                        bg |-> IF i = 0 THEN Unit ELSE -5 * Unit]]}

MpVec(c, n, v) ==
  [i \in Channels |-> [k \in 0 .. 4 |-> IF i = c /\ k = n THEN v ELSE 0]]

\* The solutions mFitSolve() leaves in w_jacobian[][].
MpSolutions ==
  {MpVec(0, 0, 0),
   [i \in Channels |-> [k \in 0 .. 4 |-> IF k = 0 THEN 4 * Unit ELSE 0]],
   MpVec(0, 1, -2 * Unit), MpVec(1, 1, 8 * Unit),
   [i \in Channels |-> [k \in 0 .. 4 |-> IF k = 3 THEN -2 * Unit ELSE 0]],
   MpVec(1, 4, 6 * Unit)}

MpInRange(m) ==
  \A j \in Channels, p \in 0 .. (NFITTING - 1) :
    ParamOK(m.fit_data[j].working_peak.params[p])

\* The peak of a fit_data before any peak is loaded into working_peak.
NoPeak == fn_newpeak(0, 0, 0, [h |-> 0, bg |-> 0])

MpInit ==
  /\ mp \in {[fit_data |-> [i \in Channels |->
                [fit |-> << >>, working_peak |-> NoPeak, store |-> EmptyStore]],
              heights |-> [i \in Channels |-> Unit],
              independent_heights |-> b,
              n_add |-> n_channels] : b \in BOOLEAN}
  /\ mode \in {"LM", "Original"}
  /\ pass = 0
  /\ pc = "idle"
  /\ idx = 0
  /\ iters = 0

StepIdx(next_pc) ==
  IF idx < MpNfit(mp)
  THEN idx' = idx + 1 /\ pc' = pc
  ELSE idx' = (IF next_pc = "idle" THEN 0 ELSE 1) /\ pc' = next_pc

\* mpNewPeaks(): the next n_peaks emitters of the scene.
MpNewPeaks ==
  /\ sys = "mp"
  /\ pc = "idle"
  /\ \E n_peaks \in 1 .. (Len(Scene) - MpNfit(mp)),
        p_type \in {"finder", "hdf5"}, est \in Estimates :
       LET cands == [j \in 1 .. n_peaks |-> Scene[MpNfit(mp) + j]]
           ests == [i \in Channels |-> [j \in 1 .. n_peaks |->
                      IF p_type = "hdf5"
                      THEN [h |-> cands[j].h, bg |-> cands[j].bg]
                      ELSE est[i]]]
       IN  mp' = mpNewPeaks(mp, cands, ests, p_type)
  /\ UNCHANGED <<sys, pc, idx, iters, pass, fit, store, diag, mode, before>>

\* Entry of mpIterateOriginal().
MpIterateOriginalBegin ==
  /\ sys = "mp"
  /\ mode = "Original"
  /\ pc = "idle"
  /\ MpNfit(mp) > 0
  /\ iters < MaxIter
  /\ pc' = "orig_update"
  /\ idx' = 1
  /\ iters' = iters + 1
  /\ UNCHANGED <<sys, mp, pass, fit, store, diag, mode, before>>

\* One turn of the first loop of mpIterateOriginal().
MpOriginalUpdateStep ==
  /\ sys = "mp"
  /\ pc = "orig_update"
  /\ \E fail \in 0 .. n_channels, w_jacobian \in MpSolutions :
       \E r \in {mpIterateOriginalUpdate(mp, idx, fail, w_jacobian)} :
         MpInRange(r) /\ mp' = r
  /\ StepIdx("orig_err")
  /\ UNCHANGED <<sys, iters, pass, fit, store, diag, mode, before>>

\* One turn of the second loop of mpIterateOriginal().
MpOriginalErrStep ==
  /\ sys = "mp"
  /\ pc = "orig_err"
  /\ \E conv \in [Channels -> BOOLEAN] :
       mp' = mpIterateOriginalErr(mp, idx, conv)
  /\ StepIdx("idle")
  /\ UNCHANGED <<sys, iters, pass, fit, store, diag, mode, before>>

\* The sums the start loop of mpIterateLM() can leave in starting_error,
\* and the error mFitCalcErr() leaves in each channel's working peak once
\* the updated peak is added: 1.0 per channel, 2.0 in sum.
LMStartingErrors == {0, 2 * Unit, 3 * Unit}
LMErrors == [k \in Channels |-> Unit]

\* Entry of mpIterateLM().
MpIterateLMBegin ==
  /\ sys = "mp"
  /\ mode = "LM"
  /\ pc = "idle"
  /\ MpNfit(mp) > 0
  /\ iters < MaxIter
  /\ pc' = "lm_start"
  /\ idx' = 1
  /\ iters' = iters + 1
  /\ UNCHANGED <<sys, mp, pass, fit, store, diag, mode, before>>

\* A turn of the for loop of mpIterateLM(): the emitter is skipped, or its
\* peaks are loaded and subtracted.
MpLMStartStep ==
  /\ sys = "mp"
  /\ pc = "lm_start"
  /\ IF mp.fit_data[0].fit[idx].status # RUNNING
     THEN /\ StepIdx("idle")
          /\ UNCHANGED mp
     ELSE /\ mp' = mpIterateLMStart(mp, idx)
          /\ pc' = "lm_pass"
          /\ idx' = idx
  /\ pass' = 0
  /\ UNCHANGED <<sys, iters, fit, store, diag, mode, before>>

\* One pass of the while(1) loop, and on a break the end of the for body.
MpLMPassStep ==
  /\ sys = "mp"
  /\ pc = "lm_pass"
  /\ \E fail \in 0 .. n_channels, w_jacobian \in MpSolutions,
        starting_error \in LMStartingErrors :
       \E r \in {mpIterateLMPass(mp, idx, fail, w_jacobian, starting_error,
                                 LMErrors)} :
           /\ MpInRange(r.m)
           /\ IF r.done
              THEN /\ mp' = mpIterateLMCommit(r.m, idx)
                   /\ pass' = 0
                   /\ IF idx < MpNfit(mp)
                      THEN idx' = idx + 1 /\ pc' = "lm_start"
                      ELSE idx' = 0 /\ pc' = "idle"
              ELSE /\ pass < MaxRetry
                   /\ mp' = r.m
                   /\ pass' = pass + 1
                   /\ UNCHANGED <<pc, idx>>
  /\ UNCHANGED <<sys, iters, fit, store, diag, mode, before>>

NextMp ==
  \/ MpNewPeaks
  \/ MpIterateOriginalBegin
  \/ MpOriginalUpdateStep
  \/ MpOriginalErrStep
  \/ MpIterateLMBegin
  \/ MpLMStartStep
  \/ MpLMPassStep

----------------------------------------------------------------------------
(* The weight index of mpUpdateFixed() and mpUpdate() *)

\* The indexings mpSetWeightsIndexing() and mpSetWeights() can be given:
\* w_z_scale, w_z_offset and n_weights.
ZiIndexings ==
  {[w_z_scale |-> s, w_z_offset |-> o, n_weights |-> n] :
     s \in {1, 2}, o \in {-Unit, 0, Unit \div 2}, n \in 1 .. 3}

\* An update of one emitter with fixed heights: the indexing, ZCENTER of
\* channel 0's working peak, and zi of the two functions (-1: not yet
\* assigned).
ZiInit ==
  /\ mp \in {[w_z_scale |-> x.w_z_scale, w_z_offset |-> x.w_z_offset,
               n_weights |-> x.n_weights, zcenter |-> z,
               zi_fixed |-> -1, zi |-> -1] :
               x \in ZiIndexings, z \in (-(MaxZ * Unit)) .. (MaxZ * Unit)}
  /\ mode = "LM"
  /\ pc = "zi_fixed"
  /\ idx = 0
  /\ iters = 0

\* mpUpdateFixed() up to its call of mpUpdate(): zi is computed, the height
\* moves, ZCENTER stays.
ZiUpdateFixed ==
  /\ sys = "zi"
  /\ pc = "zi_fixed"
  /\ mp' = [mp EXCEPT !.zi_fixed = WeightIndexOf(mp.zcenter, mp.w_z_scale,
                                                 mp.w_z_offset, mp.n_weights)]
  /\ pc' = "zi_update"
  /\ UNCHANGED <<sys, mode, idx, iters, pass, fit, store, diag, before>>

\* mpUpdate(): zi is computed first, the Z update and fn_zrange() follow.
ZiUpdate ==
  /\ sys = "zi"
  /\ pc = "zi_update"
  /\ \E dz \in {-Unit, 0, Unit} :
       mp' = [mp EXCEPT !.zi = WeightIndexOf(mp.zcenter, mp.w_z_scale,
                                            mp.w_z_offset, mp.n_weights),
                        !.zcenter = Clamp(@ - dz, min_z, max_z)]
  /\ pc' = "zi_done"
  /\ UNCHANGED <<sys, mode, idx, iters, pass, fit, store, diag, before>>

NextZi == ZiUpdateFixed \/ ZiUpdate

----------------------------------------------------------------------------
(* The specifications *)

vars == <<sys, fit, store, diag, mode, pc, idx, iters, before, mp, pass>>

\* The single-channel variables of a behaviour that drives mp_fit.c.
DaoUnused ==
  /\ fit = << >>
  /\ store = EmptyStore
  /\ diag = ZeroDiag
  /\ before = EmptyStore

\* The multi-plane variables of a behaviour that drives dao_fit.c.
MpUnused ==
  /\ mp = [fit_data |-> [i \in Channels |->
             [fit |-> << >>, working_peak |-> NoPeak, store |-> EmptyStore]],
           heights |-> [i \in Channels |-> Unit],
           independent_heights |-> FALSE,
           n_add |-> n_channels]
  /\ pass = 0

InitDao == sys = "dao" /\ DaoInit /\ before = EmptyStore /\ MpUnused
InitRT == sys = "rt" /\ RTInit /\ MpUnused
InitMp == sys = "mp" /\ MpInit /\ DaoUnused

Init == InitDao \/ InitRT \/ InitMp

Next == NextDao \/ NextRT \/ NextMp

SpecDao == InitDao /\ [][NextDao]_vars
SpecRT == InitRT /\ [][NextRT]_vars
SpecMp == InitMp /\ [][NextMp]_vars
Spec == Init /\ [][Next]_vars

\* mpIterateLM() as the code runs it: the while(1) loop has no counter, a
\* rejected attempt is followed by the next one.  pass counts the rejected
\* attempts up to MaxRetry and lambda saturates, which keeps the state
\* space finite.
SaturateLambda(m) ==
  [m EXCEPT !.fit_data = [k \in Channels |->
     [m.fit_data[k] EXCEPT
        !.working_peak.lambda.up = IF @ > MaxLambdaUp THEN MaxLambdaUp ELSE @]]]

MpLMPassStepUnbounded ==
  /\ sys = "mp"
  /\ pc = "lm_pass"
  /\ \E fail \in 0 .. n_channels, w_jacobian \in MpSolutions,
        starting_error \in LMStartingErrors :
       \E r \in {mpIterateLMPass(mp, idx, fail, w_jacobian, starting_error,
                                 LMErrors)} :
           /\ MpInRange(r.m)
           /\ IF r.done
              THEN /\ mp' = mpIterateLMCommit(r.m, idx)
                   /\ pass' = 0
                   /\ IF idx < MpNfit(mp)
                      THEN idx' = idx + 1 /\ pc' = "lm_start"
                      ELSE idx' = 0 /\ pc' = "idle"
              ELSE /\ mp' = SaturateLambda(r.m)
                   /\ pass' = IF pass < MaxRetry THEN pass + 1 ELSE pass
                   /\ UNCHANGED <<pc, idx>>
  /\ UNCHANGED <<sys, iters, fit, store, diag, mode, before>>

NextLM ==
  \/ MpNewPeaks
  \/ MpIterateLMBegin
  \/ MpLMStartStep
  \/ MpLMPassStepUnbounded

\* Once called, mpIterateLM() keeps running: its loops take their next
\* step.  The calls themselves are the caller's choice.
InitLM == InitMp /\ mode = "LM"

SpecLM ==
  /\ InitLM
  /\ [][NextLM]_vars
  /\ WF_vars(MpLMStartStep)
  /\ WF_vars(MpLMPassStepUnbounded)

\* The weight index as a function of its inputs.
InitZi == sys = "zi" /\ ZiInit /\ DaoUnused /\ pass = 0
SpecZi == InitZi /\ [][NextZi]_vars

----------------------------------------------------------------------------
(* The claims *)

DaoIdle == sys = "dao" /\ pc = "idle"
MpIdle == sys = "mp" /\ pc = "idle"

\* The peaks of channel c, and the status of emitter i (channel 0 decides).
MpFit(c) == mp.fit_data[c].fit
MpStatus(i) == MpFit(0)[i].status

\* The arrays of a channel that holds exactly the peaks of fits that are
\* not ERROR.
RECURSIVE MpRebuild(_, _)
MpRebuild(fits, i) ==
  IF i = 0 THEN EmptyStore
  ELSE IF fits[i].status = ERROR THEN MpRebuild(fits, i - 1)
  ELSE MpBoxLoop(MpRebuild(fits, i - 1), fits[i], 1)

\* The forward transform of channel c applied to the channel-0 centre of p0
\* is the centre of pc.
AffineRelated(c, p0, pk) ==
  /\ pk.params[XCENTER] =
       yt_0toN[c * 3] + yt_0toN[c * 3 + 1] * (p0.params[YCENTER] + yoff)
         + yt_0toN[c * 3 + 2] * (p0.params[XCENTER] + xoff) - xoff
  /\ pk.params[YCENTER] =
       xt_0toN[c * 3] + xt_0toN[c * 3 + 1] * (p0.params[YCENTER] + yoff)
         + xt_0toN[c * 3 + 2] * (p0.params[XCENTER] + xoff) - yoff

\* C1: between operations, in the single fitter and in every channel of the
\* multi-plane fitter, bg_counts at every pixel is the number of peaks of
\* the list that are added and whose box covers the pixel.
C1_BgCountsMatchAdded ==
  /\ DaoIdle =>
       \A m \in Pixels :
         Get(store.bg_counts, m) =
           Cardinality({i \in 1 .. Len(fit) :
                          fit[i].added /\ m \in BoxIndex(fit[i])})
  /\ MpIdle =>
       \A c \in Channels, m \in Pixels :
         Get(mp.fit_data[c].store.bg_counts, m) =
           Cardinality({i \in 1 .. Len(MpFit(c)) :
                          MpFit(c)[i].added /\ m \in MpBox(MpFit(c)[i])})

\* C2: after a complete multi-plane operation the peaks of one emitter have
\* the same status in all channels.
C2_SameStatus ==
  MpIdle =>
    \A c \in Channels :
      /\ Len(MpFit(c)) = MpNfit(mp)
      /\ \A i \in 1 .. MpNfit(mp) : MpFit(c)[i].status = MpStatus(i)

\* C2 witness: after an iteration, one emitter CONVERGED and one ERROR in
\* every channel.
C2_Witness ==
  /\ MpIdle
  /\ iters > 0
  /\ MpNfit(mp) = 2
  /\ \A c \in Channels : MpFit(c)[1].status = CONVERGED /\ MpFit(c)[2].status = ERROR

\* C3: after a complete multi-plane operation the peaks of one emitter have
\* the same ZCENTER in all channels, and with fixed heights the same HEIGHT.
C3_SameZAndHeight ==
  MpIdle =>
    \A c \in Channels, i \in 1 .. MpNfit(mp) :
      /\ MpFit(c)[i].params[ZCENTER] = MpFit(0)[i].params[ZCENTER]
      /\ ~mp.independent_heights =>
           MpFit(c)[i].params[HEIGHT] = MpFit(0)[i].params[HEIGHT]

C5_AddSubtractRoundTrip ==
  sys = "rt" =>
    /\ pc = "rt2" => store = before
    /\ pc \in {"rt1", "rt2"} =>
         \A m \in Pixels \ BoxIndex(fit[1]) :
           /\ Get(store.f_data, m) = Get(before.f_data, m)
           /\ Get(store.bg_data, m) = Get(before.bg_data, m)
           /\ Get(store.bg_counts, m) = Get(before.bg_counts, m)

\* C5 witness: the pair has run on a peak of negative height over arrays
\* that were not empty, and the arrays are as they were.
C5_Witness ==
  /\ sys = "rt"
  /\ pc = "rt2"
  /\ fit[1].params[HEIGHT] < 0
  /\ fit[1].wx # fit[1].wy
  /\ before # EmptyStore
  /\ store = before

\* C6: when an iterate function of the single fitter has returned, no
\* RUNNING peak has wx or wy outside [1, MARGIN] or HEIGHT <= 0.
C6_NoDegenerateRunning ==
  (DaoIdle /\ iters > 0) =>
    \A i \in 1 .. Len(fit) :
      fit[i].status = RUNNING =>
        /\ fit[i].wx \in 1 .. MARGIN
        /\ fit[i].wy \in 1 .. MARGIN
        /\ fit[i].params[HEIGHT] > 0

\* C7: between operations of the single fitter, also right after newPeaks(),
\* every peak that is not ERROR has its anchor in [MARGIN, size - MARGIN - 1]
\* on both axes.
C7_AnchorsInsideMargin ==
  DaoIdle =>
    \A i \in 1 .. Len(fit) :
      fit[i].status # ERROR =>
        /\ fit[i].xc \in MARGIN .. (image_size_x - MARGIN - 1)
        /\ fit[i].yc \in MARGIN .. (image_size_y - MARGIN - 1)

\* C8: between operations every peak that is not ERROR is added to the
\* arrays of its fitter: it is marked added and every pixel of its box is
\* counted in bg_counts.
C8_NonErrorAdded ==
  /\ DaoIdle =>
       \A i \in 1 .. Len(fit) :
         fit[i].status # ERROR =>
           /\ fit[i].added
           /\ \A m \in BoxIndex(fit[i]) : Get(store.bg_counts, m) > 0
  /\ MpIdle =>
       \A c \in Channels :
         \A i \in 1 .. Len(MpFit(c)) :
           MpFit(c)[i].status # ERROR =>
             /\ MpFit(c)[i].added
             /\ \A m \in MpBox(MpFit(c)[i]) :
                  Get(mp.fit_data[c].store.bg_counts, m) > 0

\* C8 witness: after a multi-plane iteration, an emitter that is RUNNING and
\* added in every channel next to an emitter that is ERROR.
C8_Witness ==
  /\ MpIdle
  /\ iters > 0
  /\ MpNfit(mp) = 2
  /\ MpStatus(2) = ERROR
  /\ \A c \in Channels : MpFit(c)[1].status = RUNNING /\ MpFit(c)[1].added

\* C9: when mpIterateLM() or mpIterateOriginal() has returned, the arrays of
\* every channel hold the peaks that are not ERROR and nothing else: no peak
\* of an ERROR emitter contributes to f_data, bg_data or bg_counts.
C9_ErrorGroupsSubtracted ==
  (MpIdle /\ iters > 0) =>
    \A c \in Channels :
      mp.fit_data[c].store = MpRebuild(MpFit(c), Len(MpFit(c)))

\* C10: when mpNewPeaks() has returned, an emitter that is ERROR in one
\* channel is ERROR in all of them, and the arrays of every channel hold the
\* peaks that are not ERROR and nothing else.
C10_NewPeaksErrorSync ==
  (MpIdle /\ iters = 0) =>
    /\ \A i \in 1 .. MpNfit(mp) :
         (\E c \in Channels : MpFit(c)[i].status = ERROR) =>
           \A c \in Channels : MpFit(c)[i].status = ERROR
    /\ \A c \in Channels :
         mp.fit_data[c].store = MpRebuild(MpFit(c), Len(MpFit(c)))

\* The arrays st with the peaks lo + 1 .. i of fits that are not ERROR put
\* on top, each once, at the parameters the list holds.
RECURSIVE MpOnTop(_, _, _, _)
MpOnTop(st, fits, lo, i) ==
  IF i <= lo THEN st
  ELSE IF fits[i].status # ERROR
  THEN MpBoxLoop(MpOnTop(st, fits, lo, i - 1), fits[i], 1)
  ELSE MpOnTop(st, fits, lo, i - 1)

\* The pixels of the boxes of the peaks lo + 1 .. hi of fits that are ERROR.
MpErrorPixels(fits, lo, hi) ==
  UNION {MpBox(fits[i]) : i \in {k \in (lo + 1) .. hi : fits[k].status = ERROR}}

\* C11: mpNewPeaks() with kind "finder" and fixed heights leaves every
\* channel's peak of each new emitter with HEIGHT equal to the mean of the
\* heights the channels were initialised with; a new peak that is not ERROR
\* is added, and away from the boxes of the new ERROR peaks each channel's
\* arrays are the former arrays plus the new peaks that are not ERROR at
\* the mean height, once each.
C11_MeanHeightAfterNewPeaks ==
  [][(MpIdle /\ ~mp.independent_heights) =>
       \A n_peaks \in 1 .. (Len(Scene) - MpNfit(mp)), est \in Estimates :
         LET cands == [j \in 1 .. n_peaks |-> Scene[MpNfit(mp) + j]]
             ests == [i \in Channels |-> [j \in 1 .. n_peaks |-> est[i]]]
             h0(k) == est[k].h
             mean == QuoT(SumTo(h0, n_channels - 1), n_channels)
             lo == MpNfit(mp)
             hi == MpNfit(mp) + n_peaks
         IN  mp' = mpNewPeaks(mp, cands, ests, "finder") =>
               \A c \in Channels :
                 LET fits == mp'.fit_data[c].fit
                     got == mp'.fit_data[c].store
                     want == MpOnTop(mp.fit_data[c].store, fits, lo, hi)
                 IN  /\ Len(fits) = hi
                     /\ \A i \in (lo + 1) .. hi :
                          /\ fits[i].params[HEIGHT] = mean
                          /\ fits[i].status # ERROR => fits[i].added
                     /\ \A m \in Pixels \ MpErrorPixels(fits, lo, hi) :
                          /\ Get(got.f_data, m) = Get(want.f_data, m)
                          /\ Get(got.bg_data, m) = Get(want.bg_data, m)
                          /\ Get(got.bg_counts, m) = Get(want.bg_counts, m)]_vars

\* C11 witness: after mpNewPeaks() with fixed heights the first emitter is
\* RUNNING in both channels at the mean 3.0 of the heights 2.0 and 4.0 the
\* channels read, and no iteration has run.
C11_Witness ==
  /\ MpIdle
  /\ ~mp.independent_heights
  /\ iters = 0
  /\ MpNfit(mp) >= 1
  /\ \A c \in Channels :
       /\ MpFit(c)[1].status = RUNNING
       /\ MpFit(c)[1].added
       /\ MpFit(c)[1].params[HEIGHT] = 3 * Unit

\* The same three arrays at pixel m.
SameAt(a, b, m) ==
  /\ Get(a.f_data, m) = Get(b.f_data, m)
  /\ Get(a.bg_data, m) = Get(b.bg_data, m)
  /\ Get(a.bg_counts, m) = Get(b.bg_counts, m)

\* C12: the new-peaks operation appends.  After newPeaks() or mpNewPeaks()
\* the list is longer by the number of candidates, every peak that was in
\* the list is at its index with the same status and parameters, and the
\* arrays are unchanged outside the boxes of the new peaks.
C12_NewPeaksAppends ==
  [][/\ (DaoIdle /\ pc' = "idle") =>
          /\ \E cands \in CandidateLists : Len(fit') = Len(fit) + Len(cands)
          /\ Len(fit') >= Len(fit)
          /\ \A i \in 1 .. Len(fit) :
               Len(fit') >= i /\ fit'[i] = fit[i]
          /\ \A m \in Pixels :
               (\A i \in (Len(fit) + 1) .. Len(fit') : m \notin BoxIndex(fit'[i]))
                 => SameAt(store', store, m)
     /\ (MpIdle /\ pc' = "idle") =>
          \A c \in Channels :
            LET old == mp.fit_data[c].fit
                new == mp'.fit_data[c].fit
            IN  /\ Len(new) > Len(old)
                /\ Len(new) - Len(old) = MpNfit(mp') - MpNfit(mp)
                /\ \A i \in 1 .. Len(old) : new[i] = old[i]
                /\ \A m \in Pixels :
                     (\A i \in (Len(old) + 1) .. Len(new) : m \notin MpBox(new[i]))
                       => SameAt(mp'.fit_data[c].store, mp.fit_data[c].store, m)]_vars

\* CONVERGED and ERROR, the terminal states.
Terminal(status) == status = CONVERGED \/ status = ERROR

C14_NAddBalanced ==
  [][sys = "mp" =>
       /\ pc' = "lm_pass" => mp'.n_add = 0
       /\ (pc = "lm_pass" /\ pc' # "lm_pass") =>
            mp'.n_add = IF mp'.fit_data[0].working_peak.status = ERROR
                        THEN 0 ELSE n_channels]_vars

\* C14 witness: mpIterateLM() has returned, and the loop of the first
\* emitter was left after a rejected attempt (lambda went up) with all
\* n_channels peaks added back.
C14_Witness ==
  /\ MpIdle
  /\ mode = "LM"
  /\ iters > 0
  /\ mp.n_add = n_channels
  /\ MpFit(0)[1].lambda.up > 0
  /\ \A c \in Channels : MpFit(c)[1].status # ERROR /\ MpFit(c)[1].added

\* The arrays that hold exactly the peaks 1 .. i of fits that are added,
\* the peak at index skip left out.
RECURSIVE DaoRebuild(_, _, _)
DaoRebuild(fits, i, skip) ==
  IF i = 0 THEN EmptyStore
  ELSE IF i = skip \/ ~fits[i].added THEN DaoRebuild(fits, i - 1, skip)
  ELSE BoxLoop(DaoRebuild(fits, i - 1, skip), fits[i], 1)

\* C15: when dposv_ fails for a RUNNING peak in update2DFixed(), update2D(),
\* update3D() or updateZ(), the peak becomes ERROR, n_dposv goes up by
\* exactly one and no other counter moves, the parameters, the anchor and
\* the half-widths of the peak stay, no other peak changes, and the arrays
\* are what they are without this peak: the other added peaks only.
C15_SolverFailure ==
  [][(sys = "dao" /\ pc = "update" /\ fit[idx].status = RUNNING) =>
       \A jacobian \in Solutions :
         LET r == update(mode, fit[idx], store, diag, 1, jacobian)
         IN  (/\ fit' = [fit EXCEPT ![idx] = r.peak]
              /\ store' = r.store
              /\ diag' = r.diag) =>
               /\ fit'[idx].status = ERROR
               /\ diag' = [diag EXCEPT !.n_dposv = @ + 1]
               /\ fit'[idx].params = fit[idx].params
               /\ fit'[idx].xc = fit[idx].xc
               /\ fit'[idx].yc = fit[idx].yc
               /\ fit'[idx].wx = fit[idx].wx
               /\ fit'[idx].wy = fit[idx].wy
               /\ \A j \in 1 .. Len(fit) : j # idx => fit'[j] = fit[j]
               /\ store' = DaoRebuild(fit, Len(fit), idx)
               /\ store' = DaoRebuild(fit', Len(fit'), 0)]_vars

\* C15 witness: in an iterate call over two peaks dposv_ has failed once,
\* nothing else went wrong, and the one ERROR peak is out of the arrays
\* while the other peak is in them.
C15_Witness ==
  /\ sys = "dao"
  /\ pc \in {"update", "err"}
  /\ Len(fit) = 2
  /\ diag = [ZeroDiag EXCEPT !.n_dposv = 1]
  /\ \E i \in 1 .. 2 :
       /\ fit[i].status = ERROR /\ ~fit[i].added
       /\ fit[3 - i].status # ERROR /\ fit[3 - i].added
  /\ store = DaoRebuild(fit, 2, 0)
  /\ store # EmptyStore

\* C16: a candidate given with its anchor in the border band (the second of
\* two, its box apart from the first peak's) is ERROR at the end of every
\* iterate call, n_margin having counted it exactly once, and the first
\* peak's pixels hold what they would hold had that peak been fitted alone.
C16_EdgeCandidateMargin ==
  [][(/\ sys = "dao"
      /\ pc # "idle"
      /\ pc' = "idle"
      /\ Len(fit') = 2
      /\ fit'[2].xc < MARGIN) =>
       /\ fit'[2].status = ERROR
       /\ diag'.n_margin =
            1 + (IF fit'[1].status = ERROR
                      /\ OutsideMargin(fit'[1].xc, fit'[1].yc)
                 THEN 1 ELSE 0)
       /\ \A m \in BoxIndex(fit'[1]) :
            SameAt(store', DaoRebuild(<<fit'[1]>>, 1, 0), m)]_vars

\* The arrays st with the shape of peak old taken out and, unless it is
\* ERROR, the shape of peak new put in; single-channel and per channel.
DaoReplaced(st, old, new) ==
  LET out == BoxLoop(st, old, -1)
  IN  IF new.status # ERROR THEN BoxLoop(out, new, 1) ELSE out

MpReplaced(st, old, new) ==
  LET out == MpBoxLoop(st, old, -1)
  IN  IF new.status # ERROR THEN MpBoxLoop(out, new, 1) ELSE out

C18_RetryLoopTerminates ==
  (sys = "mp" /\ pc = "lm_pass")
    ~> (pc # "lm_pass"
          /\ \A i \in 1 .. MpNfit(mp) : MpStatus(i) \in {RUNNING, CONVERGED, ERROR})

\* C19: with z-coupled widths (zfit = 1), after newPeaks() and after every
\* iterateZ() call, XWIDTH and YWIDTH of every peak that is not ERROR are
\* the width-versus-z function at the ZCENTER the peak now has (after
\* iterateZ() that is the value left by the clamp to [min_z, max_z]).
C19_WidthsFollowZ ==
  (DaoIdle /\ mode = "Z") =>
    \A i \in 1 .. Len(fit) :
      fit[i].status # ERROR =>
        /\ fit[i].params[XWIDTH] = WidthOfZ(wx_z_params, fit[i].params[ZCENTER])
        /\ fit[i].params[YWIDTH] = WidthOfZ(wy_z_params, fit[i].params[ZCENTER])

\* C19 witness: after an iterateZ() call a peak that is not ERROR has been
\* moved below min_z and clamped to it, and its widths are those of min_z,
\* not those newPeaks() gave it at z = 0.
C19_Witness ==
  /\ DaoIdle
  /\ mode = "Z"
  /\ iters > 0
  /\ \E i \in 1 .. Len(fit) :
       /\ fit[i].status # ERROR
       /\ fit[i].params[ZCENTER] = min_z
       /\ fit[i].params[XWIDTH] = WidthOfZ(wx_z_params, min_z)
       /\ fit[i].params[XWIDTH] # WidthOfZ(wx_z_params, 0)

\* A pass of the while(1) loop of mpIterateLM() for emitter i, with the
\* solver succeeding, gets as far as the error comparison: fn_check() and
\* mFitCalcErr() succeed in every channel.
LMReachesComparison(m, i, w_jacobian) ==
  \E m3 \in {fn_update(
               [m EXCEPT !.fit_data = [k \in Channels |->
                  [m.fit_data[k] EXCEPT !.working_peak.status = RUNNING]]],
               w_jacobian)} :
    /\ \A k \in Channels : ~fn_checkBad(m3.fit_data[k].working_peak)
    /\ \A k \in Channels : ~mFitCalcErrBad(fn_add_peak(m3.fit_data[k]))

\* C20: in mpIterateLM() the summed starting error is compared with the sum
\* over the channels of the error recomputed for the re-added working
\* peaks.  The emitter is CONVERGED exactly when the relative difference of
\* the two sums is below the tolerance, the attempt is rejected when the
\* new sum exceeds the starting sum by the tolerance or more, and otherwise
\* the step is committed with the emitter RUNNING.
C20_SummedErrorDecides ==
  [][(sys = "mp" /\ pc = "lm_pass") =>
       \A w_jacobian \in MpSolutions, starting_error \in LMStartingErrors :
         LET r == mpIterateLMPass(mp, idx, n_channels, w_jacobian,
                                  starting_error, LMErrors)
             recomputed(k) == LMErrors[k]
             want == LMDecide(starting_error, SumTo(recomputed, n_channels - 1))
             left == pc' # "lm_pass" \/ idx' # idx
         IN  (/\ LMReachesComparison(mp, idx, w_jacobian)
              /\ IF r.done
                 THEN left /\ mp' = mpIterateLMCommit(r.m, idx)
                 ELSE ~left /\ mp' = r.m) =>
               CASE want = "converged" ->
                      left /\ \A c \in Channels :
                                mp'.fit_data[c].fit[idx].status = CONVERGED
                 [] want = "retry" -> ~left
                 [] OTHER ->
                      left /\ \A c \in Channels :
                                mp'.fit_data[c].fit[idx].status = RUNNING]_vars

MpStored(m, c) == m.fit_data[c].fit

\* C22: while mpIterateLM() retries emitter idx the stored peaks of no
\* channel are written: the start loop and every rejected attempt leave all
\* fit lists as they were, and the step that ends the retries writes index
\* idx only.  After every rejected attempt each channel's working peak has
\* the parameters and the anchor of the stored peak, is not added, and the
\* residual store is what the start loop left.
C22_StoredPeaksUntilCommit ==
  [][sys = "mp" =>
       /\ (pc = "lm_start" /\ pc' = "lm_pass") =>
            \A c \in Channels :
              /\ MpStored(mp', c) = MpStored(mp, c)
              /\ ~mp'.fit_data[c].working_peak.added
       /\ (pc = "lm_pass" /\ pc' = "lm_pass") =>
            \A c \in Channels :
              /\ MpStored(mp', c) = MpStored(mp, c)
              /\ mp'.fit_data[c].working_peak.params = MpStored(mp, c)[idx].params
              /\ mp'.fit_data[c].working_peak.xi = MpStored(mp, c)[idx].xi
              /\ mp'.fit_data[c].working_peak.yi = MpStored(mp, c)[idx].yi
              /\ ~mp'.fit_data[c].working_peak.added
              /\ mp'.fit_data[c].store = mp.fit_data[c].store
       /\ (pc = "lm_pass" /\ pc' # "lm_pass") =>
            \A c \in Channels :
              /\ Len(MpStored(mp', c)) = Len(MpStored(mp, c))
              /\ \A i \in 1 .. MpNfit(mp) :
                   i # idx => MpStored(mp', c)[i] = MpStored(mp, c)[i]]_vars

\* A rejected attempt of the first emitter in its second iterate call, the
\* first call having moved its stored peak, with a second emitter stored.
C22_Witness ==
  /\ sys = "mp" /\ pc = "lm_pass" /\ pass = 1 /\ idx = 1 /\ iters = 2
  /\ MpNfit(mp) = 2
  /\ MpFit(0)[1].params[HEIGHT] # 2 * Unit
  /\ \A c \in Channels : mp.fit_data[c].working_peak.status = ERROR

\* The error calculation of the error pass fails for emitter i in some
\* channel: fi <= 0.0 in the box of the stored peak.
ErrPassBad(m, i) ==
  \E j \in Channels :
    MpNegFi([m.fit_data[j] EXCEPT !.working_peak = m.fit_data[j].fit[i]])

\* C23: the error pass of mpIterateOriginal() on a RUNNING emitter.  If the
\* error calculation fails in some channel, every channel's peak is ERROR
\* and is subtracted once from that channel's arrays, whatever the
\* convergence tests say.  Otherwise the arrays stay, the emitter is
\* CONVERGED in every channel exactly when the convergence test succeeded
\* in every channel, and RUNNING in every channel when it failed in one.
C23_ErrorPassStatus ==
  [][(sys = "mp" /\ pc = "orig_err" /\ MpStatus(idx) = RUNNING) =>
       \A conv \in [Channels -> BOOLEAN] :
         (mp' = mpIterateOriginalErr(mp, idx, conv)) =>
           /\ ErrPassBad(mp, idx) =>
                \A j \in Channels :
                  /\ mp'.fit_data[j].fit[idx].status = ERROR
                  /\ mp'.fit_data[j].store =
                       MpBoxLoop(mp.fit_data[j].store, mp.fit_data[j].fit[idx], -1)
           /\ (~ErrPassBad(mp, idx) /\ \E j \in Channels : ~conv[j]) =>
                \A j \in Channels :
                  /\ mp'.fit_data[j].fit[idx].status = RUNNING
                  /\ mp'.fit_data[j].store = mp.fit_data[j].store
           /\ (\A j \in Channels : mp'.fit_data[j].fit[idx].status = CONVERGED)
                <=> (~ErrPassBad(mp, idx) /\ \A j \in Channels : conv[j])
           /\ (\E j \in Channels : mp'.fit_data[j].fit[idx].status = CONVERGED)
                => (\A j \in Channels : conv[j])]_vars

\* The error pass has just moved the last emitter to ERROR: the peak it
\* loaded to subtract is still in working_peak, RUNNING and not added.
C23_Witness ==
  /\ MpIdle /\ mode = "Original" /\ iters > 0
  /\ MpStatus(MpNfit(mp)) = ERROR
  /\ \A j \in Channels :
       /\ mp.fit_data[j].working_peak.status = RUNNING
       /\ ~mp.fit_data[j].working_peak.added
       /\ mp.fit_data[j].working_peak.params = MpFit(j)[MpNfit(mp)].params

\* C24: what mpCopyFromWorking() writes into fit[idx] of channel c is the
\* peak loaded from fit[idx] of channel c in the same step.  When
\* mFitSolve() fails in the first loop of mpIterateOriginal() no update has
\* been made, so every channel's stored peak of the emitter keeps its
\* parameters and its anchor and only becomes ERROR.
C24_CopyBackOwnPeak ==
  [][(sys = "mp" /\ pc = "orig_update" /\ MpStatus(idx) = RUNNING) =>
       \A fail \in 0 .. (n_channels - 1), w_jacobian \in MpSolutions :
         (mp' = mpIterateOriginalUpdate(mp, idx, fail, w_jacobian)) =>
           \A c \in Channels :
             /\ mp'.fit_data[c].fit[idx].status = ERROR
             /\ mp'.fit_data[c].fit[idx].params = mp.fit_data[c].fit[idx].params
             /\ mp'.fit_data[c].fit[idx].xi = mp.fit_data[c].fit[idx].xi
             /\ mp'.fit_data[c].fit[idx].yi = mp.fit_data[c].fit[idx].yi]_vars

\* clamp(floor(w_z_scale * (ZCENTER - w_z_offset)), 0, n_weights - 1)
ZiFloor(m) ==
  Clamp((m.w_z_scale * (m.zcenter - m.w_z_offset)) \div Unit, 0, m.n_weights - 1)

\* C25: the weight index of mpUpdateFixed() and of mpUpdate() is
\* floor(w_z_scale * (ZCENTER - w_z_offset)) clamped to 0 .. n_weights - 1,
\* ZCENTER being that of channel 0's working peak before the Z update; both
\* functions get the same index in one update.
C25_WeightIndex ==
  [][sys = "zi" =>
       /\ (pc = "zi_fixed" /\ pc' = "zi_update") => mp'.zi_fixed = ZiFloor(mp)
       /\ (pc = "zi_update" /\ pc' = "zi_done") =>
            /\ mp'.zi = ZiFloor(mp)
            /\ mp'.zi = mp.zi_fixed]_vars

\* Both functions used index 1 of 3, and the Z update has moved ZCENTER to
\* where the index would be another one.
C25_Witness ==
  /\ sys = "zi" /\ pc = "zi_done"
  /\ mp.n_weights = 3
  /\ mp.zi = 1 /\ mp.zi_fixed = 1
  /\ ZiFloor(mp) # 1

\* Ten times |center - c - 0.5|, to be compared with HYSTERESIS * Unit.
AnchorDist(center, c) == Abs(10 * (center - c * Unit) - 5 * Unit)

\* Ten times the distance of center from the nearer of the two boundaries
\* of pixel c.
BoundaryDist(center, c) ==
  LET lo == 10 * Abs(center - c * Unit)
      hi == 10 * Abs(center - (c + 1) * Unit)
  IN  IF lo < hi THEN lo ELSE hi

\* The hysteresis rule for one axis: old anchor c, new centre, new anchor d.
HysteresisRule(c, center, d) ==
  /\ AnchorDist(center, c) <= HYSTERESIS * Unit => d = c
  /\ d # c => AnchorDist(center, c) > HYSTERESIS * Unit /\ d = ToInt(center)
  /\ BoundaryDist(center, c) <= Unit => d = c

\* C26: in every update of the single-channel fitter the anchor of the
\* peak stays, on each axis, when the updated centre is within HYSTERESIS
\* of the centre of the anchor pixel; it changes only when the distance is
\* larger, and then to the integer part of the centre; a centre within 0.1
\* of a boundary of the anchor pixel leaves the anchor.
C26_AnchorHysteresis ==
  [][(sys = "dao" /\ pc = "update") =>
       /\ HysteresisRule(fit[idx].xc, fit'[idx].params[XCENTER], fit'[idx].xc)
       /\ HysteresisRule(fit[idx].yc, fit'[idx].params[YCENTER], fit'[idx].yc)]_vars

\* A centre that went from 11.3 to 12.0, where the anchor stayed 11, and on
\* to 12.7, where the anchor moved to 12.
C26_Witness ==
  /\ sys = "dao" /\ iters = 2
  /\ \E i \in 1 .. Len(fit) :
       /\ fit[i].params[XCENTER] = 12 * Unit + (7 * Unit) \div 10
       /\ fit[i].xc = 12
       /\ fit[i].status # ERROR

\* The hysteresis rule of mpUpdate() for one axis: old anchor c, new
\* centre, new anchor d.
MpHysteresisRule(c, center, d) ==
  /\ 10 * Abs(center - c * Unit) <= HYSTERESIS * Unit => d = c
  /\ d # c => 10 * Abs(center - c * Unit) > HYSTERESIS * Unit
  /\ 10 * Abs(center - c * Unit) > HYSTERESIS * Unit => d = RoundInt(center)

\* The anchor fitDataUpdate() chooses for old anchor c and new centre.
DaoAnchor(c, center) == IF OffCentre(center, c) THEN ToInt(center) ELSE c

\* mpUpdate() has just run for emitter idx in mpIterateOriginal(): the
\* solver failed in no channel.
MpUpdated(w_jacobian) ==
  /\ sys = "mp"
  /\ pc = "orig_update"
  /\ MpStatus(idx) = RUNNING
  /\ mp' = mpIterateOriginalUpdate(mp, idx, n_channels, w_jacobian)

\* C27 as amended: after mpUpdate() each channel's anchor stays, on each
\* axis, when |centre - anchor| <= HYSTERESIS, and is the centre rounded to
\* the nearest integer when the distance is larger.
C27_MpHysteresis ==
  [][\A w_jacobian \in MpSolutions :
       MpUpdated(w_jacobian) =>
         \A c \in Channels :
           LET old == mp.fit_data[c].fit[idx]
               new == mp'.fit_data[c].working_peak
           IN  /\ MpHysteresisRule(old.xi, new.params[XCENTER], new.xi)
               /\ MpHysteresisRule(old.yi, new.params[YCENTER], new.yi)]_vars

\* C27 as stated: after mpUpdate() each channel's anchor changes only when
\* |centre - anchor - 0.5| > HYSTERESIS, and it is the anchor the
\* single-channel rule chooses for the same centre and previous anchor.
C27_SameAsSingleChannel ==
  [][\A w_jacobian \in MpSolutions :
       MpUpdated(w_jacobian) =>
         \A c \in Channels :
           LET old == mp.fit_data[c].fit[idx]
               new == mp'.fit_data[c].working_peak
           IN  /\ new.xi # old.xi =>
                    AnchorDist(new.params[XCENTER], old.xi) > HYSTERESIS * Unit
               /\ new.yi # old.yi =>
                    AnchorDist(new.params[YCENTER], old.yi) > HYSTERESIS * Unit
               /\ new.xi = DaoAnchor(old.xi, new.params[XCENTER])
               /\ new.yi = DaoAnchor(old.yi, new.params[YCENTER])]_vars

\* An emitter whose anchor mpUpdate() has moved in channel 0 and that is
\* not ERROR.
C27_Witness ==
  /\ MpIdle /\ mode = "Original" /\ iters > 0
  /\ MpStatus(1) # ERROR
  /\ MpFit(0)[1].xi # 11

DiagSum(dg) ==
  dg.n_dposv + dg.n_margin + dg.n_neg_fi + dg.n_neg_height + dg.n_neg_width

\* C29: in every step of iterate*() the five failure counters together go
\* up by one when the peak of the step moves from RUNNING to ERROR and stay
\* otherwise, and no counter ever goes down or up by more than one: the sum
\* of the counters is the number of peaks lost since newPeaks() reset them.
C29_OneCounterPerLostPeak ==
  [][(sys = "dao" /\ pc \in {"update", "err"}) =>
       /\ DiagSum(diag') - DiagSum(diag) =
            (IF fit[idx].status = RUNNING /\ fit'[idx].status = ERROR
             THEN 1 ELSE 0)
       /\ \A f \in DOMAIN diag : diag'[f] - diag[f] \in {0, 1}]_vars

\* C30: fitDataUpdate() counts a margin violation only for an updated
\* anchor outside MARGIN .. size - MARGIN - 1 on some axis; an anchor at
\* MARGIN or at size - MARGIN - 1 is not counted and not made ERROR by the
\* margin test.
C30_MarginClosedRange ==
  [][(sys = "dao" /\ pc = "update" /\ diag'.n_margin # diag.n_margin) =>
       \/ fit'[idx].xc \notin MARGIN .. (image_size_x - MARGIN - 1)
       \/ fit'[idx].yc \notin MARGIN .. (image_size_y - MARGIN - 1)]_vars

====
